---- MODULE Spec2Model ----
(***************************************************************************)
(* The Crossmint headless checkout service                                 *)
(* (src/src/commerce/crossmint/checkout.ts: order submission, transaction  *)
(* signing, approval relay) and the webhook server of the bot              *)
(* (src/unnamed/part_000).                                                 *)
(*                                                                         *)
(* Strings are sequences of one-character strings, so that template        *)
(* literals are concatenations and regular expressions and includes() are  *)
(* computed on the characters.  An optional value (undefined or a value)   *)
(* is a sequence of length at most one.                                    *)
(***************************************************************************)
EXTENDS Integers, Sequences, FiniteSets, TLC

\* ------------------------------------------------------------------ strings

None == <<>>

Some(v) == <<v>>

IsSome(o) == Len(o) > 0

Get(o) == o[1]

UpperLetters == <<"A","B","C","D","E","F","G","H","I","J","K","L","M",
                  "N","O","P","Q","R","S","T","U","V","W","X","Y","Z">>

LowerLetters == <<"a","b","c","d","e","f","g","h","i","j","k","l","m",
                  "n","o","p","q","r","s","t","u","v","w","x","y","z">>

Digits == {"0","1","2","3","4","5","6","7","8","9"}

\* the /i flag: characters are compared after case folding
ToLower(c) ==
    IF \E k \in 1..26 : UpperLetters[k] = c
    THEN LowerLetters[CHOOSE k \in 1..26 : UpperLetters[k] = c]
    ELSE c

\* [A-Z0-9] under the /i flag
IsAsinChar(c) ==
    \/ c \in Digits
    \/ \E k \in 1..26 : LowerLetters[k] = ToLower(c)

\* s has the literal lit at position p (1-based), case folded when fold
HasLiteralAt(s, p, lit, fold) ==
    /\ p >= 1
    /\ p + Len(lit) - 1 <= Len(s)
    /\ \A k \in 1..Len(lit) :
          IF fold THEN ToLower(s[p + k - 1]) = ToLower(lit[k])
                  ELSE s[p + k - 1] = lit[k]

\* String.prototype.includes (case sensitive)
Includes(s, needle) ==
    \E p \in 1..(Len(s) + 1) : HasLiteralAt(s, p, needle, FALSE)

\* ------------------------------------------------------- program constants

AsinLen == 10

StrAmazon == <<"a","m","a","z","o","n",":">>

StrAmazonCom == <<"a","m","a","z","o","n",".","c","o","m">>

StrDp == <<"/","d","p","/">>

StrGpProduct == <<"/","g","p","/","p","r","o","d","u","c","t","/">>

StrCleanUrl == <<"h","t","t","p","s",":","/","/","w","w","w",".">> \o StrAmazonCom \o StrDp

StrProductNotFound ==
    <<"P","r","o","d","u","c","t"," ","n","o","t"," ","f","o","u","n","d">>

\* ------------------------------------------------ product locator resolver

\* the capture group ([A-Z0-9]{10}) starting at position q
AsinAt(s, q) ==
    /\ q + AsinLen - 1 <= Len(s)
    /\ \A k \in 0..(AsinLen - 1) : IsAsinChar(s[q + k])

\* the regular expression <prefix>([A-Z0-9]{10}) with the /i flag matches at p
PrefixAsinAt(s, p, prefix) ==
    /\ HasLiteralAt(s, p, prefix, TRUE)
    /\ AsinAt(s, p + Len(prefix))

\* amazonUrl.match(/\/(?:dp|gp\/product)\/([A-Z0-9]{10})/i): the capture of
\* the leftmost match, None when there is no match
asinMatch(amazonUrl) ==
    LET Hit(p) == \/ PrefixAsinAt(amazonUrl, p, StrDp)
                  \/ PrefixAsinAt(amazonUrl, p, StrGpProduct)
        Ps == {p \in 1..Len(amazonUrl) : Hit(p)}
    IN  IF Ps = {} THEN None
        ELSE LET p == CHOOSE x \in Ps : \A y \in Ps : x <= y
                 q == IF PrefixAsinAt(amazonUrl, p, StrDp)
                      THEN p + Len(StrDp) ELSE p + Len(StrGpProduct)
             IN  Some(SubSeq(amazonUrl, q, q + AsinLen - 1))

\* amazonUrl.match(/amazon\.com\/dp\/([A-Z0-9]{10})/i)
urlMatch(amazonUrl) ==
    LET lit == StrAmazonCom \o StrDp
        Ps == {p \in 1..Len(amazonUrl) : PrefixAsinAt(amazonUrl, p, lit)}
    IN  IF Ps = {} THEN None
        ELSE LET p == CHOOSE x \in Ps : \A y \in Ps : x <= y
             IN  Some(SubSeq(amazonUrl, p + Len(lit), p + Len(lit) + AsinLen - 1))

\* extractProductLocator: the locator, or None for null
extractProductLocator(amazonUrl) ==
    IF IsSome(asinMatch(amazonUrl))
    THEN Some(StrAmazon \o Get(asinMatch(amazonUrl)))
    ELSE IF IsSome(urlMatch(amazonUrl))
         THEN Some(StrAmazon \o Get(urlMatch(amazonUrl)))
         ELSE None

getBestBlockchainForWallet(walletAddress) == "base-sepolia"

\* a candidate list that tries the original URL before the identifier
getProductLocatorVariationsUrlFirst(asin, amazonUrl) ==
    << StrAmazon \o amazonUrl,
       StrAmazon \o asin,
       StrAmazon \o StrCleanUrl \o asin,
       asin,
       StrCleanUrl \o asin >>

getProductLocatorVariations(asin, amazonUrl) ==
    << StrAmazon \o asin,
       StrAmazon \o StrCleanUrl \o asin,
       StrAmazon \o amazonUrl,
       asin,
       StrCleanUrl \o asin >>

\* --------------------------------------------------------------- the inputs

UrlHost == <<"h","t","t","p","s",":","/","/","w","w","w",".">> \o StrAmazonCom

\* https://www.amazon.com/dp/B01DFKC2SO
UrlDp == UrlHost \o StrDp \o <<"B","0","1","D","F","K","C","2","S","O">>

\* https://www.amazon.com/GP/product/b01dfkc2so?x
UrlGpLower == UrlHost \o <<"/","G","P","/","p","r","o","d","u","c","t","/">>
                      \o <<"b","0","1","d","f","k","c","2","s","o","?","x">>

\* https://www.amazon.com/Echo/dp/B07XJ8C8F5/ref
UrlTitled == UrlHost \o <<"/","E","c","h","o">> \o StrDp
                     \o <<"B","0","7","X","J","8","C","8","F","5","/","r","e","f">>

\* https://www.amazon.com/dp/B01-DFKC2S (no 10-character identifier)
UrlNoAsin == UrlHost \o StrDp \o <<"B","0","1","-","D","F","K","C","2","S">>

\* https://www.amazon.com/s?k=echo
UrlSearch == UrlHost \o <<"/","s","?","k","=","e","c","h","o">>

Urls == {UrlDp, UrlGpLower, UrlTitled, UrlNoAsin, UrlSearch}

Wallets == {"0xA11CE"}

\* PhysicalAddress: country and the optional state decide; the other fields
\* are carried unchanged
Addresses ==
    { [name |-> "Ann", line1 |-> "1 Main St", city |-> "Austin",
       postalCode |-> "73301", country |-> c, state |-> st] :
         c \in {"US", "CA", "us"}, st \in {None, Some(""), Some("TX")} }

\* ------------------------------------------------------- provider answers

InsufficientFundsStatus == "crypto-payer-insufficient-funds"

\* response.data of an HTTP-successful answer; a field the provider left out
\* is None
Bodies ==
    { [orderId |-> o, paymentStatus |-> Some(p), quoteStatus |-> Some(q),
       preparation |-> prep] :
         o \in {Some("order-1")},
         p \in {InsufficientFundsStatus, "insufficient-funds", "awaiting-payment"},
         q \in {"requires-physical-address", "valid"},
         prep \in {None} \cup { Some([serializedTransaction |-> t]) :
                                   t \in {None, Some(""), Some("tx-A"), Some("tx-B")} } }
    \cup
    { [orderId |-> None, paymentStatus |-> Some("awaiting-payment"),
       quoteStatus |-> Some("valid"),
       preparation |-> Some([serializedTransaction |-> Some("tx-A")])] }

MsgNotFound == StrProductNotFound

MsgNotFoundLocator == <<"x",":"," ">> \o StrProductNotFound

\* error.response.data.message
Messages == {None, Some(MsgNotFound), Some(MsgNotFoundLocator),
             Some(<<"p">> \o SubSeq(StrProductNotFound, 2, Len(StrProductNotFound))),
             Some(<<"I","n","v","a","l","i","d"," ","p","a","y","e","r">>)}

ErrorStatuses == {400, 401, 403, 404, 422, 500}

SuccessStatuses == {200, 201}

StatusText(status) ==
    IF status = 400 THEN <<"B","a","d">> ELSE <<>>

\* ---------------------------------------------------------------- errors

NoText == ""

\* an AxiosError: response is absent (status None) on a timeout or a
\* connection failure
AxiosError(status, message) ==
    [type |-> "AxiosError", status |-> status, message |-> message,
     text |-> NoText, detail |-> None, cause |-> NoText]

ZodError ==
    [type |-> "ZodError", status |-> None, message |-> None,
     text |-> NoText, detail |-> None, cause |-> NoText]

\* new Error(text): detail is the provider message interpolated into the
\* text (None when the text has none), cause the message of the error that
\* "Unexpected error during order creation: ${error}" wraps
PlainError(text, detail) ==
    [type |-> "Error", status |-> None, message |-> None,
     text |-> text, detail |-> detail, cause |-> NoText]

isAxiosError(error) == error.type = "AxiosError"

\* OrderResponseSchema.parse: the required fields are strings
SchemaValid(data) ==
    /\ IsSome(data.orderId)
    /\ IsSome(data.paymentStatus)
    /\ IsSome(data.quoteStatus)

\* the parsed value: order.orderId, order.payment, order.quote
ParsedOrder(data) ==
    [orderId |-> Get(data.orderId),
     payment |-> [status |-> Get(data.paymentStatus),
                  preparation |-> data.preparation],
     quote |-> [status |-> Get(data.quoteStatus)]]

\* ------------------------------------------------- order submission engine

VARIABLES
    pc,                        \* "idle", "awaiting" (axios.post pending), "returned", "thrown"
    args,                      \* the arguments of createWalletAmazonOrder
    orderRequest,              \* the request built by createWalletAmazonOrder
    productLocatorVariations,  \* the candidates handed to createOrderWithRetry
    i,                         \* the loop index of createOrderWithRetry (0-based)
    lastError,                 \* None for null
    requests,                  \* the payloads posted to /orders, in order
    responses,                 \* the provider's answers, in order
    validatedResponse,         \* what createOrderWithRetry returned (None before)
    retryError,                \* what createOrderWithRetry threw (None if nothing)
    retval,                    \* what createWalletAmazonOrder returned
    error                      \* what createWalletAmazonOrder threw

vars == <<pc, args, orderRequest, productLocatorVariations, i, lastError,
          requests, responses, validatedResponse, retryError, retval, error>>

\* one call of the wallet API of the service (signOrderTransaction,
\* getTransactionDetails or approveTransaction)
VARIABLES
    apiFn,        \* "none", "sign", "details" or "approve"
    apiPc,        \* "idle", "awaiting" (axios pending), "returned", "thrown"
    apiArgs,      \* the arguments of the call
    apiRequest,   \* the payload posted (None for the GET)
    apiAnswer,    \* the provider's answer
    apiResult,    \* the value the call returned
    apiThrown     \* the error that escaped the call

apiVars == <<apiFn, apiPc, apiArgs, apiRequest, apiAnswer, apiResult, apiThrown>>

VARIABLES walletAuth, sessions, userMemory, sent, now, handlers

hookVars == <<walletAuth, sessions, userMemory, sent, now, handlers>>

allVars == <<vars, apiVars, hookVars>>

\* ------------------------------------------ settlement notifier (BotHttpServer)
\* src/unnamed/part_000.  The wallet-auth store (crossmintWalletService), the
\* session store (memoryUtils) and the notification transport (telegramBot)
\* are imported from files outside src/; they are modelled from the
\* specification as key-value stores and as a send that resolves or rejects.

\* JavaScript values of a request body: numbers and strings; a missing field
\* is None
Num(n) == [type |-> "number", n |-> n, s |-> <<>>]
Str(s) == [type |-> "string", n |-> 0, s |-> s]

\* !v for an optional number or string of characters
Falsy(v) ==
    \/ v = None
    \/ Get(v).type = "number" /\ Get(v).n = 0
    \/ Get(v).type = "string" /\ Len(Get(v).s) = 0

\* !v for an optional string of characters
FalsyChars(v) == v = None \/ Len(Get(v)) = 0

\* !v for an optional text
FalsyText(v) == v = None \/ Get(v) = ""

DigitValue(c) ==
    CASE c = "0" -> 0 [] c = "1" -> 1 [] c = "2" -> 2 [] c = "3" -> 3
      [] c = "4" -> 4 [] c = "5" -> 5 [] c = "6" -> 6 [] c = "7" -> 7
      [] c = "8" -> 8 [] c = "9" -> 9

RECURSIVE DecimalValue(_)
DecimalValue(s) ==
    IF s = <<>> THEN 0
    ELSE 10 * DecimalValue(SubSeq(s, 1, Len(s) - 1)) + DigitValue(s[Len(s)])

\* Number(v) of a number or of a string of letters, digits and blanks: the
\* blanks around the string are dropped, the empty string is 0, a string of
\* digits is its value and None is NaN
Number(v) ==
    IF v.type = "number" THEN Some(v.n)
    ELSE LET filled == {k \in 1..Len(v.s) : v.s[k] # " "}
             trimmed ==
                 IF filled = {} THEN <<>>
                 ELSE SubSeq(v.s,
                             CHOOSE k \in filled : \A j \in filled : k <= j,
                             CHOOSE k \in filled : \A j \in filled : k >= j)
         IN  IF \A k \in 1..Len(trimmed) : trimmed[k] \in Digits
             THEN Some(DecimalValue(trimmed))
             ELSE None

\* parseInt(s, 10) of a string of letters, digits and blanks: the leading
\* blanks are skipped and the digits up to the first other character are
\* read; None is NaN
parseInt(s) ==
    LET filled == {k \in 1..Len(s) : s[k] # " "}
        first == IF filled = {} THEN Len(s) + 1
                 ELSE CHOOSE k \in filled : \A j \in filled : k <= j
        stops == {k \in first..Len(s) : s[k] \notin Digits}
        last == IF stops = {} THEN Len(s)
                ELSE (CHOOSE k \in stops : \A j \in stops : k <= j) - 1
    IN  IF last < first THEN None ELSE Some(DecimalValue(SubSeq(s, first, last)))

Clamp(k, len) == IF k < 0 THEN 0 ELSE IF k > len THEN len ELSE k

\* String.prototype.substring(start, end): both indices are clamped to
\* 0..length and swapped when start > end
substring(s, start, end) ==
    LET a == Clamp(start, Len(s))
        b == Clamp(end, Len(s))
    IN  IF a <= b THEN SubSeq(s, a + 1, b) ELSE SubSeq(s, b + 1, a)

\* walletAddress.substring(0, 8) + '...' + walletAddress.substring(-6);
\* substring without an end runs to the length of the string
maskedAddress(walletAddress) ==
    substring(walletAddress, 0, 8) \o <<".", ".", ".">>
        \o substring(walletAddress, 0 - 6, Len(walletAddress))

\* ---- users, bodies and answers

UserWithSession == 7
UserWithWallet == 8
UserUnknown == 9
\* the user that Number(" ") names
UserOfBlank == 0
Users == {UserWithSession, UserWithWallet, UserUnknown, UserOfBlank}

MaxEvents == 2
MaxClock == 2

AddressA == <<"0","x","A","1","1","C","E","0","0","0","0","0","0","0","0","1">>
AddressB == <<"0","x","B","0","B","0","0","0","0","0","0","0","0","0","0","2">>
AddressOld == <<"0","x","0","1","D","0","0","0","0","0","0","0","0","0","0","0">>

Body(userId, walletAddress, crossmintUserId, email, authToken, sessionId, amount, currency, transactionId, orderId, status) ==
    [userId |-> userId, walletAddress |-> walletAddress,
     crossmintUserId |-> crossmintUserId, email |-> email,
     authToken |-> authToken, sessionId |-> sessionId, amount |-> amount,
     currency |-> currency, transactionId |-> transactionId,
     orderId |-> orderId, status |-> status, botSigner |-> None]

WalletCreatedBody(userId, walletAddress, crossmintUserId, email) ==
    Body(userId, walletAddress, crossmintUserId, email, Some("jwt-1"),
         None, None, None, None, None, None)

WalletCreatedBodies ==
    { WalletCreatedBody(Some(Num(UserWithSession)), Some(AddressA), Some("cm-1"), Some("a@x.io")),
      WalletCreatedBody(Some(Str(<<"7">>)), Some(AddressB), Some("cm-2"), None),
      WalletCreatedBody(Some(Num(UserUnknown)), Some(AddressA), Some("cm-1"), None),
      WalletCreatedBody(None, Some(AddressA), Some("cm-1"), None),
      WalletCreatedBody(Some(Num(UserWithSession)), None, Some("cm-1"), None),
      WalletCreatedBody(Some(Num(UserWithSession)), Some(<<>>), Some("cm-1"), None),
      WalletCreatedBody(Some(Num(UserWithSession)), Some(AddressA), None, None),
      WalletCreatedBody(Some(Str(<<"a","b","c">>)), Some(AddressA), Some("cm-1"), None),
      WalletCreatedBody(Some(Str(<<"7","a">>)), Some(AddressA), Some("cm-1"), None),
      WalletCreatedBody(Some(Str(<<"0">>)), Some(AddressA), Some("cm-1"), None),
      WalletCreatedBody(Some(Str(<<" ">>)), Some(AddressA), Some("cm-1"), None) }

PaymentBody(sessionId, amount, transactionId, userId) ==
    Body(userId, None, None, None, None,
         sessionId, amount, Some("USD"), transactionId, None, None)

PaymentBodies ==
    { PaymentBody(Some("cs_1"), Some("25"), Some("pay-1"), Some(Num(UserWithWallet))),
      PaymentBody(Some("cs_2"), Some("25"), Some("pay-2"), Some(Num(UserWithSession))),
      PaymentBody(Some("cs_3"), Some("10"), Some("pay-3"), None),
      PaymentBody(Some("cs_4"), None, Some("pay-4"), Some(Num(UserWithWallet))) }

ApprovalBody(userId, transactionId, orderId, status) ==
    Body(userId, None, None, None, None,
         None, None, None, transactionId, orderId, status)

ApprovalBodies ==
    { ApprovalBody(Some(Num(UserWithWallet)), Some("tx-1"), Some("ord-1"), Some("approved")),
      ApprovalBody(Some(Num(UserWithWallet)), Some("tx-1"), Some("ord-1"), Some("failed")),
      ApprovalBody(Some(Num(UserWithWallet)), Some("tx-1"), None, Some("approved")),
      ApprovalBody(Some(Str(<<"a","b","c">>)), Some("tx-1"), Some("ord-1"), Some("failed")) }

\* POST /api/logout {userId}
LogoutBodies ==
    { ApprovalBody(userId, None, None, None) :
        userId \in {Some(Num(UserWithWallet)), Some(Num(UserWithSession)),
                    None, Some(Str(<<"8">>))} }

\* POST /api/webhook/delegation-completed {userId, botSigner, status}
DelegationBodies ==
    { [ApprovalBody(Some(Num(UserWithWallet)), None, None, Some("success"))
          EXCEPT !.botSigner = Some("0xB07")],
      [ApprovalBody(Some(Str(<<"8">>)), None, None, Some("failed"))
          EXCEPT !.botSigner = Some("0xB07")],
      ApprovalBody(Some(Num(UserWithWallet)), None, None, Some("success")),
      [ApprovalBody(Some(Str(<<"a","b","c">>)), None, None, Some("success"))
          EXCEPT !.botSigner = Some("0xB07")],
      [ApprovalBody(Some(Str(<<" ">>)), None, None, Some("success"))
          EXCEPT !.botSigner = Some("0xB07")] }

\* GET /api/user/:userId/wallet: req.params.userId
WalletPaths == {<<"7">>, <<"8">>, <<"0">>, <<"a">>}

\* what getWalletBalance settles with: data, null, or a rejection
BalanceAnswers ==
    { [resolves |-> TRUE,
       data |-> Some([balances |-> << [currency |-> "ETH", amount |-> "1.0"],
                                      [currency |-> "USDC", amount |-> "12.50"] >>])],
      [resolves |-> TRUE,
       data |-> Some([balances |-> << [currency |-> "ETH", amount |-> "1.0"] >>])],
      [resolves |-> TRUE, data |-> None],
      [resolves |-> FALSE, data |-> None] }

\* realBalanceData.balances.find(b => b.currency === 'USDC')?.amount || '0.00'
usdcBalanceOf(data) ==
    LET found == {k \in 1..Len(data.balances) : data.balances[k].currency = "USDC"}
    IN  IF found = {} THEN "0.00"
        ELSE LET first == CHOOSE k \in found : \A m \in found : k <= m
             IN  IF data.balances[first].amount = "" THEN "0.00"
                 ELSE data.balances[first].amount

\* ---- stores and transport

WalletInfo(address, crossmintUserId, email, authToken, createdAt) ==
    [address |-> address, crossmintUserId |-> crossmintUserId,
     email |-> email, authToken |-> authToken, createdAt |-> createdAt,
     isVerified |-> TRUE, lastTopUpAmount |-> None, lastTopUpAt |-> None,
     lastVerifiedBalance |-> None, lastBalanceCheck |-> None]

WalletData(crossmintUserId, walletAddress, authToken, email) ==
    [crossmintUserId |-> crossmintUserId, walletAddress |-> walletAddress,
     authToken |-> authToken, email |-> email]

\* the stores and the transport log as one value that a handler step maps
\* to the next one
World ==
    [walletAuth |-> walletAuth, sessions |-> sessions,
     userMemory |-> userMemory, sent |-> sent]

Stores(world) ==
    [walletAuth |-> world.walletAuth, sessions |-> world.sessions,
     userMemory |-> world.userMemory]

\* crossmintWalletService.updateUserAuth(userId, walletData)
updateUserAuth(world, userId, walletData) ==
    [world EXCEPT !.walletAuth[userId] = Some(walletData)]

\* memoryUtils.getUserMemory(userId): a reference to the session object of
\* the user, 0 when there is none
getUserMemory(world, userId) ==
    IF userId.type = "number" /\ userId.n \in Users
    THEN world.userMemory[userId.n]
    ELSE 0

hasWalletInfo(world, memory) ==
    memory # 0 /\ IsSome(world.sessions[memory].walletInfo)

Message(chatId, template, transactionId, orderId, balance) ==
    [chatId |-> chatId, template |-> template, transactionId |-> transactionId,
     orderId |-> orderId, balance |-> balance]

\* telegramBot.sendMessage(chatId, text) is called and awaited
sendMessage(world, handler, message, awaiting) ==
    [world |-> [world EXCEPT !.sent =
                    Append(@, [handler |-> handler.id, message |-> message,
                               outcome |-> "pending"])],
     handler |-> [handler EXCEPT !.pc = awaiting]]

Json(status, success, err, userId, walletAddress) ==
    [status |-> status, success |-> success, error |-> err,
     userId |-> userId, walletAddress |-> walletAddress, sessionCleared |-> None,
     hasWallet |-> None]

\* res.status(n).json(...) ends the handler
respond(world, handler, res) ==
    [world |-> world,
     handler |-> [handler EXCEPT !.pc = "done", !.res = Some(res),
                                 !.post = Some(Stores(world))]]

badRequest(world, handler, text) ==
    respond(world, handler, Json(400, FALSE, text, None, None))

\* a catch block that undoes the handler's writes before it answers
serverErrorRollsBack(world, handler) ==
    respond([world EXCEPT !.walletAuth = handler.pre.walletAuth,
                          !.sessions = handler.pre.sessions,
                          !.userMemory = handler.pre.userMemory],
            handler, Json(500, FALSE, "Internal server error", None, None))

\* catch (error) of a handler: lines 130-136, 264-270, 399-405
serverError(world, handler) ==
    respond(world, handler, Json(500, FALSE, "Internal server error", None, None))

accepted(world, handler) ==
    respond(world, handler, Json(200, TRUE, "", None, None))

NewHandler(id, route, body, world) ==
    [id |-> id, route |-> route, body |-> body, pc |-> "start",
     numericUserId |-> 0, memory |-> 0, balance |-> None,
     pre |-> Stores(world),
     post |-> None, res |-> None]


\* a loop that posts the built request without replacing the locator
currentRequestKeepsLocator(request, locator) == request

\* a loop that rebuilds the request and loses the payer on the way
currentRequestDropsPayer(request, locator) ==
    [request EXCEPT !.lineItems = [productLocator |-> locator],
                    !.payment.payerAddress = ""]

\* lines 232-238: the request of the current attempt
currentRequest(request, locator) ==
    [request EXCEPT !.lineItems = [productLocator |-> locator]]

\* lines 275: the exit predicate of the candidate loop
IsProductNotFound(status, message) ==
    /\ status = Some(400)
    /\ IsSome(message)
    /\ Includes(Get(message), StrProductNotFound)

\* a classification without the insufficient-funds check
classifyOrderNoFundsCheck(order) ==
    LET serializedTransaction ==
            IF IsSome(order.payment.preparation)
            THEN Get(order.payment.preparation).serializedTransaction
            ELSE None
    IN  IF order.quote.status = "requires-physical-address"
        THEN [thrown |-> Some("Physical address is required for this product"),
              serializedTransaction |-> None]
        ELSE IF ~IsSome(serializedTransaction) \/ Get(serializedTransaction) = ""
        THEN [thrown |-> Some("No serialized transaction found for order"),
              serializedTransaction |-> None]
        ELSE [thrown |-> None, serializedTransaction |-> serializedTransaction]

\* a classification whose transaction check lost its negation
classifyOrderInvertedCheck(order) ==
    LET serializedTransaction ==
            IF IsSome(order.payment.preparation)
            THEN Get(order.payment.preparation).serializedTransaction
            ELSE None
    IN  IF order.payment.status = InsufficientFundsStatus
        THEN [thrown |-> Some("Insufficient USDC funds in wallet"),
              serializedTransaction |-> None]
        ELSE IF order.quote.status = "requires-physical-address"
        THEN [thrown |-> Some("Physical address is required for this product"),
              serializedTransaction |-> None]
        ELSE IF IsSome(serializedTransaction) /\ Get(serializedTransaction) # ""
        THEN [thrown |-> Some("No serialized transaction found for order"),
              serializedTransaction |-> None]
        ELSE [thrown |-> None, serializedTransaction |-> serializedTransaction]

\* a classification that looks at the transaction before the quote status
classifyOrderTransactionFirst(order) ==
    LET serializedTransaction ==
            IF IsSome(order.payment.preparation)
            THEN Get(order.payment.preparation).serializedTransaction
            ELSE None
    IN  IF order.payment.status = InsufficientFundsStatus
        THEN [thrown |-> Some("Insufficient USDC funds in wallet"),
              serializedTransaction |-> None]
        ELSE IF IsSome(serializedTransaction) /\ Get(serializedTransaction) # ""
        THEN [thrown |-> None, serializedTransaction |-> serializedTransaction]
        ELSE IF order.quote.status = "requires-physical-address"
        THEN [thrown |-> Some("Physical address is required for this product"),
              serializedTransaction |-> None]
        ELSE [thrown |-> Some("No serialized transaction found for order"),
              serializedTransaction |-> None]

\* a classification that returns an order without a transaction to the caller
classifyOrderReturnsUnsupported(order) ==
    LET serializedTransaction ==
            IF IsSome(order.payment.preparation)
            THEN Get(order.payment.preparation).serializedTransaction
            ELSE None
    IN  IF order.payment.status = InsufficientFundsStatus
        THEN [thrown |-> Some("Insufficient USDC funds in wallet"),
              serializedTransaction |-> None]
        ELSE IF order.quote.status = "requires-physical-address"
        THEN [thrown |-> Some("Physical address is required for this product"),
              serializedTransaction |-> None]
        ELSE [thrown |-> None, serializedTransaction |-> serializedTransaction]

\* lines 357-383: what the classification of a parsed order does; thrown is
\* the message of the Error it throws, None when it returns
classifyOrder(order) ==
    LET serializedTransaction ==
            IF IsSome(order.payment.preparation)
            THEN Get(order.payment.preparation).serializedTransaction
            ELSE None
    IN  IF order.payment.status = InsufficientFundsStatus
        THEN [thrown |-> Some("Insufficient USDC funds in wallet"),
              serializedTransaction |-> None]
        ELSE IF order.quote.status = "requires-physical-address"
        THEN [thrown |-> Some("Physical address is required for this product"),
              serializedTransaction |-> None]
        ELSE IF ~IsSome(serializedTransaction) \/ Get(serializedTransaction) = ""
        THEN [thrown |-> Some("No serialized transaction found for order"),
              serializedTransaction |-> None]
        ELSE [thrown |-> None, serializedTransaction |-> serializedTransaction]

\* lines 385-421: the error createWalletAmazonOrder throws for a caught error
orderCreationError(e) ==
    IF isAxiosError(e)
    THEN LET message == IF IsSome(e.message) /\ Get(e.message) # <<>>
                        THEN e.message
                        ELSE IF IsSome(e.status) /\ StatusText(Get(e.status)) # <<>>
                             THEN Some(StatusText(Get(e.status)))
                             ELSE None
         IN  IF e.status = Some(400)
             THEN PlainError("Invalid order data", message)
             ELSE IF e.status = Some(401) \/ e.status = Some(403)
             THEN PlainError("Invalid Crossmint API key or insufficient permissions", None)
             ELSE IF e.status = Some(404)
             THEN PlainError("Product not found or not supported for Amazon purchases", None)
             ELSE IF IsSome(e.status) /\ Get(e.status) >= 500
             THEN PlainError("Crossmint service is temporarily unavailable", None)
             ELSE PlainError("Order creation failed", message)
    ELSE IF e.type = "ZodError"
    THEN PlainError("Invalid response format from Crossmint API", None)
    ELSE [PlainError("Unexpected error during order creation", None)
            EXCEPT !.cause = e.text]

Init ==
    /\ pc = "idle"
    /\ args = None
    /\ orderRequest = None
    /\ productLocatorVariations = <<>>
    /\ i = 0
    /\ lastError = None
    /\ requests = <<>>
    /\ responses = <<>>
    /\ validatedResponse = None
    /\ retryError = None
    /\ retval = None
    /\ error = None
    /\ apiFn = "none"
    /\ apiPc = "idle"
    /\ apiArgs = None
    /\ apiRequest = None
    /\ apiAnswer = None
    /\ apiResult = None
    /\ apiThrown = None
    \* the stores before the first request: one user with a session and no
    \* wallet, one with a session and a wallet, one unknown to both stores
    /\ walletAuth =
          [u \in Users |->
              IF u = UserWithWallet
              THEN Some(WalletData("cm-0", AddressOld, Some("jwt-0"), Some("old@x.io")))
              ELSE None]
    /\ sessions =
          << [walletInfo |-> None],
             [walletInfo |-> Some(WalletInfo(AddressOld, "cm-0", Some("old@x.io"),
                                             Some("jwt-0"), 0))] >>
    /\ userMemory =
          [u \in Users |->
              IF u = UserWithSession THEN 1 ELSE IF u = UserWithWallet THEN 2 ELSE 0]
    /\ sent = <<>>
    /\ now = 1
    /\ handlers = <<>>

\* createWalletAmazonOrder ends by throwing the error mapped from e
Throw(e) ==
    /\ pc' = "thrown"
    /\ error' = Some(orderCreationError(e))
    /\ retval' = None

\* a validation without the state check
validationFailureNoStateCheck(product, shippingAddress) ==
    IF ~IsSome(extractProductLocator(product.amazonUrl))
    THEN Some("Could not extract product locator from Amazon URL")
    ELSE IF ~IsSome(asinMatch(product.amazonUrl))
    THEN Some("Could not extract ASIN from Amazon URL")
    ELSE IF shippingAddress.country # "US"
    THEN Some("Only US shipping addresses are supported at this time")
    ELSE None

\* lines 304-323: the message of the validation Error, None when the
\* arguments pass
validationFailure(product, shippingAddress) ==
    IF ~IsSome(extractProductLocator(product.amazonUrl))
    THEN Some("Could not extract product locator from Amazon URL")
    ELSE IF ~IsSome(asinMatch(product.amazonUrl))
    THEN Some("Could not extract ASIN from Amazon URL")
    ELSE IF shippingAddress.country # "US"
    THEN Some("Only US shipping addresses are supported at this time")
    ELSE IF ~IsSome(shippingAddress.state) \/ Get(shippingAddress.state) = ""
    THEN Some("State is required for US shipping addresses")
    ELSE None

\* lines 327-341
buildOrderRequest(product, userEmail, walletAddress, shippingAddress) ==
    [recipient |-> [email |-> userEmail, physicalAddress |-> shippingAddress],
     payment |-> [method |-> getBestBlockchainForWallet(walletAddress),
                  currency |-> "usdc",
                  payerAddress |-> walletAddress,
                  receiptEmail |-> userEmail],
     lineItems |-> [productLocator |-> Get(extractProductLocator(product.amazonUrl))]]

\* createWalletAmazonOrder up to its first await: validation, the order
\* request, the candidates, and the post of the first candidate
CreateWalletAmazonOrder(product, userEmail, walletAddress, shippingAddress) ==
    /\ pc = "idle"
    /\ args' = Some([product |-> product, userEmail |-> userEmail,
                     walletAddress |-> walletAddress,
                     shippingAddress |-> shippingAddress])
    /\ IF IsSome(validationFailure(product, shippingAddress))
       THEN /\ Throw(PlainError(Get(validationFailure(product, shippingAddress)), None))
            /\ UNCHANGED <<orderRequest, productLocatorVariations, i, lastError,
                           requests, responses, validatedResponse, retryError>>
       ELSE LET req == buildOrderRequest(product, userEmail, walletAddress, shippingAddress)
                variations == getProductLocatorVariations(
                                  Get(asinMatch(product.amazonUrl)), product.amazonUrl)
            IN  /\ orderRequest' = Some(req)
                /\ productLocatorVariations' = variations
                /\ i' = 0
                /\ lastError' = None
                /\ requests' = Append(requests, currentRequest(req, variations[1]))
                /\ pc' = "awaiting"
                /\ UNCHANGED <<responses, validatedResponse, retryError, retval, error>>
    /\ UNCHANGED <<apiVars, hookVars>>

\* a loop that keeps the first error it saw
keepFirstError(previous, e) == IF IsSome(previous) THEN previous ELSE Some(e)

\* lines 272 and 280: lastError = error
recordError(previous, e) == Some(e)

\* a loop that posts the candidate it has just tried once more
NextCandidateRepeats(e) ==
    /\ lastError' = recordError(lastError, e)
    /\ i' = i + 1
    /\ IF i + 1 < Len(productLocatorVariations)
       THEN /\ requests' = Append(requests,
                   currentRequest(Get(orderRequest), productLocatorVariations[i + 1]))
            /\ pc' = "awaiting"
            /\ UNCHANGED <<validatedResponse, retryError, retval, error>>
       ELSE /\ retryError' = lastError'
            /\ Throw(Get(lastError'))
            /\ UNCHANGED <<requests, validatedResponse>>

\* lines 266-288 after a failed attempt that does not abort: record the
\* error, then post the next candidate or throw the last error
NextCandidate(e) ==
    /\ lastError' = recordError(lastError, e)
    /\ i' = i + 1
    /\ IF i + 1 < Len(productLocatorVariations)
       THEN /\ requests' = Append(requests,
                   currentRequest(Get(orderRequest), productLocatorVariations[i + 2]))
            /\ pc' = "awaiting"
            /\ UNCHANGED <<validatedResponse, retryError, retval, error>>
       ELSE /\ retryError' = lastError'
            /\ Throw(Get(lastError'))
            /\ UNCHANGED <<requests, validatedResponse>>

\* lines 268-277: an AxiosError aborts the loop unless it is of the
\* product-not-found class
AxiosFailure(e) ==
    IF ~IsProductNotFound(e.status, e.message)
    THEN /\ lastError' = recordError(lastError, e)
         /\ retryError' = Some(e)
         /\ Throw(e)
         /\ UNCHANGED <<i, requests, validatedResponse>>
    ELSE NextCandidate(e)

\* a loop that does not return at line 264 but goes on to the next candidate
ReturnOrderAndContinue(parsed) ==
    LET outcome == classifyOrder(parsed)
    IN  /\ validatedResponse' = Some(parsed)
        /\ IF IsSome(outcome.thrown)
           THEN Throw(PlainError(Get(outcome.thrown), None))
           ELSE /\ pc' = "returned"
                /\ retval' = Some([order |-> parsed,
                                   requiresTransaction |-> TRUE,
                                   serializedTransaction |->
                                       outcome.serializedTransaction])
                /\ error' = None
        /\ requests' =
              IF i + 1 < Len(productLocatorVariations)
              THEN Append(requests,
                      currentRequest(Get(orderRequest), productLocatorVariations[i + 2]))
              ELSE requests
        /\ UNCHANGED <<i, lastError, retryError>>

\* line 264 with a body that parses: createOrderWithRetry returns the parsed
\* order, the loop ends, and lines 355-383 classify it
ReturnOrder(parsed) ==
    LET outcome == classifyOrder(parsed)
    IN  /\ validatedResponse' = Some(parsed)
        /\ IF IsSome(outcome.thrown)
           THEN Throw(PlainError(Get(outcome.thrown), None))
           ELSE /\ pc' = "returned"
                /\ retval' = Some([order |-> parsed,
                                   requiresTransaction |-> TRUE,
                                   serializedTransaction |->
                                       outcome.serializedTransaction])
                /\ error' = None
        /\ UNCHANGED <<i, lastError, requests, retryError>>

\* the provider answers the pending request with a 2xx status: lines 257-264
HttpSuccess(status, data) ==
    /\ pc = "awaiting"
    /\ responses' = Append(responses,
           [status |-> Some(status), data |-> Some(data), message |-> None])
    /\ IF SchemaValid(data)
       THEN ReturnOrder(ParsedOrder(data))
       ELSE NextCandidate(ZodError)
    /\ UNCHANGED <<args, orderRequest, productLocatorVariations>>
    /\ UNCHANGED <<apiVars, hookVars>>

\* the provider answers the pending request with a non-2xx status
HttpError(status, message) ==
    /\ pc = "awaiting"
    /\ responses' = Append(responses,
           [status |-> Some(status), data |-> None, message |-> message])
    /\ AxiosFailure(AxiosError(Some(status), message))
    /\ UNCHANGED <<args, orderRequest, productLocatorVariations>>
    /\ UNCHANGED <<apiVars, hookVars>>

\* the pending request times out or the connection fails: no response
NetworkError ==
    /\ pc = "awaiting"
    /\ responses' = Append(responses,
           [status |-> None, data |-> None, message |-> None])
    /\ AxiosFailure(AxiosError(None, None))
    /\ UNCHANGED <<args, orderRequest, productLocatorVariations>>
    /\ UNCHANGED <<apiVars, hookVars>>

Next ==
    \/ \E u \in Urls, e \in {"buyer@example.com"}, w \in Wallets, a \in Addresses :
          CreateWalletAmazonOrder([amazonUrl |-> u], e, w, a)
    \/ \E s \in SuccessStatuses, d \in Bodies : HttpSuccess(s, d)
    \/ \E s \in ErrorStatuses, m \in Messages : HttpError(s, m)
    \/ NetworkError

Spec == Init /\ [][Next]_vars

\* lines 245-256: the awaited post settles, with a response or, after the
\* timeout of the request, without one
ProviderAnswers ==
    \/ \E s \in SuccessStatuses, d \in Bodies : HttpSuccess(s, d)
    \/ \E s \in ErrorStatuses, m \in Messages : HttpError(s, m)
    \/ NetworkError

SpecTerminating == Init /\ [][Next]_vars /\ WF_vars(ProviderAnswers)

\* ------------------------------------- signing coordinator, approval relay

\* a || b on optional strings: a when it is truthy
OrElse(a, b) == IF IsSome(a) /\ Get(a) # "" THEN a ELSE b

\* response.data of the wallet API: None for a null body
ApiBody(id, transactionId, status, approvals, message) ==
    [id |-> id, transactionId |-> transactionId, status |-> status,
     approvals |-> approvals, message |-> message]

\* the provider answers with an HTTP response
HttpAnswer(status, data) ==
    [hasResponse |-> TRUE, status |-> status, data |-> data,
     statusText |-> IF status = 200 THEN "OK"
                    ELSE IF status = 201 THEN "Created"
                    ELSE IF status = 204 THEN "No Content"
                    ELSE IF status = 400 THEN "Bad Request"
                    ELSE "",
     message |-> NoText]

\* no response: a timeout or a connection failure, with the message of the
\* AxiosError
NetworkAnswers ==
    { [hasResponse |-> FALSE, status |-> 0, statusText |-> NoText,
       data |-> None, message |-> message] :
         message \in {"timeout of 30000ms exceeded", "Network Error"} }

\* the body of an error response
ErrorBodies ==
    {None, Some(ApiBody(None, None, None, None, None)),
     Some(ApiBody(None, None, None, None, Some("Wallet is locked")))}

PendingA == [message |-> Some("0xmsgA"), signer |-> Some("evm-passkey:A")]

PendingB == [message |-> Some("0xmsgB"), signer |-> Some("evm-passkey:B")]

\* the default validateStatus of axios: a 2xx response resolves, any other
\* answer rejects
Resolves(answer) == answer.hasResponse /\ answer.status \in 200..299

\* what the calls return; an absent field is None
ApiResult(success, transactionId, status, transaction, pendingMessage, signerLocator, err) ==
    [success |-> success, transactionId |-> transactionId, status |-> status,
     transaction |-> transaction, pendingMessage |-> pendingMessage,
     signerLocator |-> signerLocator, error |-> err]

\* a template literal `${text}: ${detail}`
ErrorText(text, detail) == Some([text |-> text, detail |-> detail])

\* what is caught: the rejection of axios, or a TypeError of the try block
Caught(answer, message) ==
    [hasResponse |-> answer.hasResponse, status |-> answer.status,
     statusText |-> answer.statusText, data |-> answer.data, message |-> message]

\* transactionData.id on a null body
TypeErrorOnNull ==
    [hasResponse |-> FALSE, status |-> 0, statusText |-> NoText, data |-> None,
     message |-> "Cannot read properties of null"]

Returns(value) == [thrown |-> None, value |-> Some(value)]

Throws(e) == [thrown |-> Some(e), value |-> None]

\* error.response.data?.message || error.response.statusText
responseMessage(e) ==
    LET message == IF IsSome(e.data) THEN Get(e.data).message ELSE None
    IN  Get(OrElse(message, Some(e.statusText)))

\* lines 482-497
transactionPayload(serializedTransaction, chain) ==
    [params |-> [calls |-> <<[transaction |-> serializedTransaction]>>,
                 chain |-> chain]]

\* lines 503-542: the try block of signOrderTransaction after the answer
signTry(answer) ==
    IF ~Resolves(answer)
    THEN Throws(Caught(answer, answer.message))
    ELSE IF answer.status = 200 \/ answer.status = 201
    THEN IF ~IsSome(answer.data)
         THEN Throws(TypeErrorOnNull)
         ELSE LET transactionData == Get(answer.data)
              IN  Returns(ApiResult(Some(TRUE),
                                    OrElse(transactionData.id, transactionData.transactionId),
                                    transactionData.status,
                                    Some(transactionData), None, None, None))
    ELSE Returns(ApiResult(Some(FALSE), None, None, None, None, None,
                           ErrorText("Transaction failed with status", ToString(answer.status))))

\* a catch block that lets an error without a response escape
signCatchRethrows(e) ==
    IF e.hasResponse
    THEN Returns(ApiResult(Some(FALSE), None, None, None, None, None,
                           ErrorText("Transaction signing failed", responseMessage(e))))
    ELSE Throws(e)

\* lines 544-564: the catch block of signOrderTransaction
signCatch(e) ==
    IF e.hasResponse
    THEN Returns(ApiResult(Some(FALSE), None, None, None, None, None,
                           ErrorText("Transaction signing failed", responseMessage(e))))
    ELSE Returns(ApiResult(Some(FALSE), None, None, None, None, None,
                           ErrorText("Network error", e.message)))

\* a fetch that does not look at the status of the transaction
detailsTryIgnoresStatus(answer) ==
    IF ~Resolves(answer)
    THEN Throws(Caught(answer, answer.message))
    ELSE IF ~IsSome(answer.data)
    THEN Throws(TypeErrorOnNull)
    ELSE LET transactionData == Get(answer.data)
         IN  IF /\ IsSome(transactionData.approvals)
                /\ IsSome(Get(transactionData.approvals).pending)
                /\ Len(Get(Get(transactionData.approvals).pending)) > 0
             THEN LET pendingApproval == Get(Get(transactionData.approvals).pending)[1]
                  IN  Returns(ApiResult(None, None, None, Some(transactionData),
                                        pendingApproval.message, pendingApproval.signer, None))
             ELSE Returns(ApiResult(None, None, None, Some(transactionData), None, None,
                          ErrorText("Transaction is not awaiting approval. Current status",
                                    IF IsSome(transactionData.status)
                                    THEN Get(transactionData.status) ELSE "undefined")))

\* a fetch that takes the last pending approval
detailsTryTakesLast(answer) ==
    IF ~Resolves(answer)
    THEN Throws(Caught(answer, answer.message))
    ELSE IF ~IsSome(answer.data)
    THEN Throws(TypeErrorOnNull)
    ELSE LET transactionData == Get(answer.data)
         IN  IF /\ transactionData.status = Some("awaiting-approval")
                /\ IsSome(transactionData.approvals)
                /\ IsSome(Get(transactionData.approvals).pending)
                /\ Len(Get(Get(transactionData.approvals).pending)) > 0
             THEN LET pending == Get(Get(transactionData.approvals).pending)
                      pendingApproval == pending[Len(pending)]
                  IN  Returns(ApiResult(None, None, None, Some(transactionData),
                                        pendingApproval.message, pendingApproval.signer, None))
             ELSE Returns(ApiResult(None, None, None, Some(transactionData), None, None,
                          ErrorText("Transaction is not awaiting approval. Current status",
                                    IF IsSome(transactionData.status)
                                    THEN Get(transactionData.status) ELSE "undefined")))

\* lines 648-691: the try block of getTransactionDetails after the answer
detailsTry(answer) ==
    IF ~Resolves(answer)
    THEN Throws(Caught(answer, answer.message))
    ELSE IF ~IsSome(answer.data)
    THEN Throws(TypeErrorOnNull)
    ELSE LET transactionData == Get(answer.data)
         IN  IF /\ transactionData.status = Some("awaiting-approval")
                /\ IsSome(transactionData.approvals)
                /\ IsSome(Get(transactionData.approvals).pending)
                /\ Len(Get(Get(transactionData.approvals).pending)) > 0
             THEN LET pendingApproval == Get(Get(transactionData.approvals).pending)[1]
                  IN  Returns(ApiResult(None, None, None, Some(transactionData),
                                        pendingApproval.message, pendingApproval.signer, None))
             ELSE Returns(ApiResult(None, None, None, Some(transactionData), None, None,
                          ErrorText("Transaction is not awaiting approval. Current status",
                                    IF IsSome(transactionData.status)
                                    THEN Get(transactionData.status) ELSE "undefined")))

\* lines 693-713: the catch block of getTransactionDetails
detailsCatch(e) ==
    IF e.hasResponse
    THEN Returns(ApiResult(None, None, None, None, None, None,
                           ErrorText("Failed to fetch transaction", responseMessage(e))))
    ELSE Returns(ApiResult(None, None, None, None, None, None,
                           ErrorText("Network error", e.message)))

\* lines 750-765
approvalPayload(signerLocator, signature, metadata) ==
    [approvals |-> << [signer |-> signerLocator,
                       signature |-> [r |-> signature.r, s |-> signature.s],
                       metadata |->
                           [authenticatorData |-> metadata.authenticatorData,
                            challengeIndex |-> metadata.challengeIndex,
                            clientDataJSON |-> metadata.clientDataJSON,
                            typeIndex |-> metadata.typeIndex,
                            userVerificationRequired |->
                                metadata.userVerificationRequired]] >>]

\* an approval that also accepts HTTP 200, as signing does
approveTryAccepts200(answer) ==
    IF ~Resolves(answer)
    THEN Throws(Caught(answer, answer.message))
    ELSE IF answer.status = 200 \/ answer.status = 201
    THEN Returns(ApiResult(Some(TRUE), None, None, answer.data, None, None, None))
    ELSE Returns(ApiResult(Some(FALSE), None, None, None, None, None,
                           ErrorText("Approval failed with status", ToString(answer.status))))

\* lines 771-801: the try block of approveTransaction after the answer
approveTry(answer) ==
    IF ~Resolves(answer)
    THEN Throws(Caught(answer, answer.message))
    ELSE IF answer.status = 201
    THEN Returns(ApiResult(Some(TRUE), None, None, answer.data, None, None, None))
    ELSE Returns(ApiResult(Some(FALSE), None, None, None, None, None,
                           ErrorText("Approval failed with status", ToString(answer.status))))

\* lines 803-823: the catch block of approveTransaction
approveCatch(e) ==
    IF e.hasResponse
    THEN Returns(ApiResult(Some(FALSE), None, None, None, None, None,
                           ErrorText("Approval submission failed", responseMessage(e))))
    ELSE Returns(ApiResult(Some(FALSE), None, None, None, None, None,
                           ErrorText("Network error", e.message)))

\* the call ends with what the try or the catch block produced
ApiFinish(outcome) ==
    /\ apiPc' = IF IsSome(outcome.thrown) THEN "thrown" ELSE "returned"
    /\ apiResult' = outcome.value
    /\ apiThrown' = outcome.thrown

\* a call starts and its request is pending
ApiStart(fn, callArgs, request) ==
    /\ apiPc = "idle"
    /\ apiFn' = fn
    /\ apiArgs' = Some(callArgs)
    /\ apiRequest' = request
    /\ apiPc' = "awaiting"
    /\ UNCHANGED <<apiAnswer, apiResult, apiThrown>>
    /\ UNCHANGED <<vars, hookVars>>

ApiAnswered(fn, answer) ==
    /\ apiPc = "awaiting"
    /\ apiFn = fn
    /\ apiAnswer' = Some(answer)
    /\ UNCHANGED <<apiFn, apiArgs, apiRequest>>
    /\ UNCHANGED <<vars, hookVars>>

\* signOrderTransaction up to the post at line 503
SignOrderTransaction(walletAddress, serializedTransaction, chain) ==
    ApiStart("sign",
             [walletAddress |-> walletAddress,
              serializedTransaction |-> serializedTransaction, chain |-> chain],
             Some(transactionPayload(serializedTransaction, chain)))

\* signOrderTransaction from the answer on
SignAnswered(answer) ==
    /\ ApiAnswered("sign", answer)
    /\ ApiFinish(LET tried == signTry(answer)
                 IN  IF IsSome(tried.thrown)
                     THEN signCatch(Get(tried.thrown)) ELSE tried)

\* getTransactionDetails up to the get at line 648
GetTransactionDetails(walletAddress, transactionId) ==
    ApiStart("details",
             [walletAddress |-> walletAddress, transactionId |-> transactionId],
             None)

\* getTransactionDetails from the answer on
DetailsAnswered(answer) ==
    /\ ApiAnswered("details", answer)
    /\ ApiFinish(LET tried == detailsTry(answer)
                 IN  IF IsSome(tried.thrown)
                     THEN detailsCatch(Get(tried.thrown)) ELSE tried)

\* approveTransaction up to the post at line 771
ApproveTransaction(walletAddress, transactionId, signerLocator, signature, metadata) ==
    ApiStart("approve",
             [walletAddress |-> walletAddress, transactionId |-> transactionId,
              signerLocator |-> signerLocator, signature |-> signature,
              metadata |-> metadata],
             Some(approvalPayload(signerLocator, signature, metadata)))

\* approveTransaction from the answer on
ApproveAnswered(answer) ==
    /\ ApiAnswered("approve", answer)
    /\ ApiFinish(LET tried == approveTry(answer)
                 IN  IF IsSome(tried.thrown)
                     THEN approveCatch(Get(tried.thrown)) ELSE tried)

Metadatas ==
    { [authenticatorData |-> "0xauth", challengeIndex |-> 23,
       clientDataJSON |-> "{}", typeIndex |-> 1, userVerificationRequired |-> uv] :
         uv \in BOOLEAN }

SignAnswers ==
    { HttpAnswer(st, d) :
        st \in {200, 201, 204},
        d \in {None} \cup
              { Some(ApiBody(a, b, status, None, None)) :
                  a \in {None, Some(""), Some("tx-1")}, b \in {None, Some("tx-2")},
                  status \in {None, Some("awaiting-approval"), Some("failed"),
                              Some("pending")} } }
    \cup { HttpAnswer(st, d) : st \in {400, 500}, d \in ErrorBodies }
    \cup NetworkAnswers

DetailAnswers ==
    { HttpAnswer(200, d) :
        d \in {None} \cup
              { Some(ApiBody(Some("tx-1"), None, status, ap, None)) :
                  status \in {None, Some("awaiting-approval"), Some("approved"),
                              Some("failed")},
                  ap \in {None} \cup
                         { Some([pending |-> pl]) :
                             pl \in {None, Some(<<>>), Some(<<PendingA>>),
                                     Some(<<PendingA, PendingB>>),
                                     Some(<<PendingB, PendingA>>)} } } }
    \cup { HttpAnswer(st, d) : st \in {400, 500}, d \in ErrorBodies }
    \cup NetworkAnswers

ApproveAnswers ==
    { HttpAnswer(st, d) : st \in {200, 201, 204},
                          d \in {None, Some(ApiBody(Some("tx-1"), None, Some("pending"), None, None))} }
    \cup { HttpAnswer(st, d) : st \in {400, 500}, d \in ErrorBodies }
    \cup NetworkAnswers

NextWalletApi ==
    \/ \E w \in Wallets, t \in {"tx-A", "tx-B"} :
          SignOrderTransaction(w, t, "base-sepolia")
    \/ \E a \in SignAnswers : SignAnswered(a)
    \/ \E w \in Wallets : GetTransactionDetails(w, "tx-1")
    \/ \E a \in DetailAnswers : DetailsAnswered(a)
    \/ \E w \in Wallets, sg \in {"evm-passkey:A", "evm-passkey:B"},
          sig \in {[r |-> "0x1", s |-> "0x2"], [r |-> "0x3", s |-> "0x4"]},
          m \in Metadatas : ApproveTransaction(w, "tx-1", sg, sig, m)
    \/ \E a \in ApproveAnswers : ApproveAnswered(a)

SpecWalletApi == Init /\ [][NextWalletApi]_allVars

\* ---- POST /api/webhook/wallet-created

\* lines 59-74: the two checks of the body; None when the body passes
walletCreatedRejection(body) ==
    IF Falsy(body.userId) \/ FalsyChars(body.walletAddress)
       \/ FalsyText(body.crossmintUserId)
    THEN Some("Missing required fields: userId, walletAddress, crossmintUserId")
    ELSE IF Number(Get(body.userId)) = None
    THEN Some("Invalid userId format. Must be a number.")
    ELSE None

\* lines 78-104: the wallet-auth record and the session's wallet info
walletCreatedUpdate(world, handler, t) ==
    LET body == handler.body
        numericUserId == Get(Number(Get(body.userId)))
        walletData == WalletData(Get(body.crossmintUserId), Get(body.walletAddress),
                                 body.authToken, body.email)
        updated == updateUserAuth(world, numericUserId, walletData)
        memory == getUserMemory(updated, Num(numericUserId))
    IN  [world |->
             IF memory # 0
             THEN [updated EXCEPT !.sessions[memory].walletInfo =
                      Some(WalletInfo(Get(body.walletAddress),
                                      Get(body.crossmintUserId),
                                      body.email, body.authToken, t))]
             ELSE updated,
         handler |-> [handler EXCEPT !.numericUserId = numericUserId,
                                     !.memory = memory]]

\* lines 57-122: the handler up to its await of sendMessage
walletCreated(world, handler, t) ==
    LET rejection == walletCreatedRejection(handler.body)
    IN  IF IsSome(rejection)
        THEN badRequest(world, handler, Get(rejection))
        ELSE LET u == walletCreatedUpdate(world, handler, t)
             IN  sendMessage(u.world, u.handler,
                             Message(Num(u.handler.numericUserId), "wallet-created",
                                     None, None, None),
                             "send")

\* a handler that writes the wallet info of the session after its await
walletCreatedSentWritesLate(world, handler, delivered) ==
    LET written ==
            IF handler.memory # 0
            THEN [world EXCEPT !.sessions[handler.memory].walletInfo =
                     Some([Get(@) EXCEPT !.address = Get(handler.body.walletAddress)])]
            ELSE world
    IN  IF delivered
        THEN respond(written, handler,
                     Json(200, TRUE, "", Some(handler.numericUserId),
                          Some(maskedAddress(Get(handler.body.walletAddress)))))
        ELSE serverError(written, handler)

\* lines 123-136: the response after the send, or the catch block
walletCreatedSent(world, handler, delivered) ==
    IF delivered
    THEN respond(world, handler,
                 Json(200, TRUE, "", Some(handler.numericUserId),
                      Some(maskedAddress(Get(handler.body.walletAddress)))))
    ELSE serverError(world, handler)

\* ---- POST /api/webhook/payment-completed

\* a write that looks the session up again and puts it back into the store
writeTopUpRestoresSession(world, handler, t) ==
    [world EXCEPT !.sessions[handler.memory].walletInfo =
                      Some([Get(@) EXCEPT !.lastTopUpAmount = handler.body.amount,
                                          !.lastTopUpAt = Some(t)]),
                  !.userMemory[Get(handler.body.userId).n] = handler.memory]

\* lines 241-242: the top-up fields
writeTopUp(world, handler, t) ==
    [world EXCEPT !.sessions[handler.memory].walletInfo =
        Some([Get(@) EXCEPT !.lastTopUpAmount = handler.body.amount,
                            !.lastTopUpAt = Some(t)])]

\* lines 206-209: the top-up fields and the verified balance
writeVerifiedTopUp(world, handler, usdcBalance, t) ==
    [world EXCEPT !.sessions[handler.memory].walletInfo =
        Some([Get(@) EXCEPT !.lastTopUpAmount = handler.body.amount,
                            !.lastTopUpAt = Some(t),
                            !.lastVerifiedBalance = Some(usdcBalance),
                            !.lastBalanceCheck = Some(t)])]

paymentMessage(handler, template, balance) ==
    Message(Get(handler.body.userId), template, handler.body.transactionId,
            None, balance)

\* lines 181-199: the handler up to its await of getWalletBalance
paymentCompleted(world, handler) ==
    LET body == handler.body
    IN  IF FalsyText(body.sessionId) \/ FalsyText(body.amount)
           \/ FalsyText(body.transactionId)
        THEN badRequest(world, handler,
                        "Missing required fields: sessionId, amount, transactionId")
        ELSE IF Falsy(body.userId)
        THEN accepted(world, handler)
        ELSE LET memory == getUserMemory(world, Get(body.userId))
             IN  IF hasWalletInfo(world, memory)
                 THEN [world |-> world,
                       handler |-> [handler EXCEPT !.memory = memory,
                                                   !.pc = "balance"]]
                 ELSE accepted(world, handler)

\* lines 237-252: catch (balanceError)
paymentCatch(world, handler, t) ==
    sendMessage(writeTopUp(world, handler, t), handler,
                paymentMessage(handler, "payment-fallback", None), "sendCatch")

\* lines 199-236: the inner try block after the balance has settled
paymentBalanceSettled(world, handler, answer, t) ==
    IF ~answer.resolves
    THEN paymentCatch(world, handler, t)
    ELSE IF IsSome(answer.data)
    THEN LET usdcBalance == usdcBalanceOf(Get(answer.data))
         IN  sendMessage(writeVerifiedTopUp(world, handler, usdcBalance, t), handler,
                         paymentMessage(handler, "payment-verified", Some(usdcBalance)),
                         "sendTry")
    ELSE sendMessage(writeTopUp(world, handler, t), handler,
                     paymentMessage(handler, "payment-fallback", None), "sendTry")

\* lines 212-270: what follows a settled send
paymentSent(world, handler, delivered, t) ==
    IF delivered THEN accepted(world, handler)
    ELSE IF handler.pc = "sendTry" THEN paymentCatch(world, handler, t)
    ELSE serverError(world, handler)

\* ---- POST /api/webhook/transaction-approved

approvalMessage(handler, template, balance) ==
    Message(Get(handler.body.userId), template, handler.body.transactionId,
            handler.body.orderId, balance)

\* lines 276-291 and 378-388: the handler up to its first await
transactionApproved(world, handler) ==
    LET body == handler.body
    IN  IF Falsy(body.userId) \/ FalsyText(body.transactionId)
           \/ FalsyText(body.orderId) \/ FalsyText(body.status)
        THEN badRequest(world, handler,
                        "Missing required fields: userId, transactionId, orderId, status")
        ELSE IF body.status = Some("approved")
        THEN [world |-> world, handler |-> [handler EXCEPT !.pc = "balance"]]
        ELSE sendMessage(world, handler,
                         Message(Get(body.userId), "approval-failed", None, None, None),
                         "send")

\* lines 341-371: catch (error) of the balance verification
approvalCatch(world, handler) ==
    sendMessage(world, handler,
                approvalMessage(handler, "approved-fallback", None), "sendCatch")

\* lines 291-340: the inner try block after the balance has settled
approvalBalanceSettled(world, handler, answer, t) ==
    IF ~answer.resolves
    THEN approvalCatch(world, handler)
    ELSE IF IsSome(answer.data)
    THEN LET usdcBalance == usdcBalanceOf(Get(answer.data))
             memory == getUserMemory(world, Get(handler.body.userId))
             written ==
                 IF hasWalletInfo(world, memory)
                 THEN [world EXCEPT !.sessions[memory].walletInfo =
                          Some([Get(@) EXCEPT !.lastVerifiedBalance = Some(usdcBalance),
                                              !.lastBalanceCheck = Some(t)])]
                 ELSE world
         IN  sendMessage(written, [handler EXCEPT !.memory = memory],
                         approvalMessage(handler, "approved", Some(usdcBalance)),
                         "sendTry")
    ELSE sendMessage(world, handler,
                     approvalMessage(handler, "approved", None), "sendTry")

\* lines 308-405: what follows a settled send
approvalSent(world, handler, delivered) ==
    IF delivered THEN accepted(world, handler)
    ELSE IF handler.pc = "sendTry" THEN approvalCatch(world, handler)
    ELSE serverError(world, handler)

\* ---- POST /api/logout

\* crossmintWalletService.clearUser(userId): the record of the user is
\* removed; the result is true when there was one, and reported by the
\* service when there was none
clearUser(world, userId, reported) ==
    [world |-> [world EXCEPT !.walletAuth[userId.n] = None],
     result |-> IsSome(world.walletAuth[userId.n]) \/ reported]

\* memoryUtils.clearUserMemory(userId)
clearUserMemory(world, userId) ==
    [world EXCEPT !.userMemory[userId.n] = 0]

\* lines 142-167: the whole handler, it awaits nothing
logout(world, handler, reported) ==
    LET userId == handler.body.userId
    IN  IF Falsy(userId) \/ Get(userId).type # "number"
        THEN badRequest(world, handler, "Missing or invalid userId")
        ELSE LET cleared == clearUser(world, Get(userId), reported)
                 logoutSuccess == cleared.result
             IN  respond(IF logoutSuccess
                         THEN clearUserMemory(cleared.world, Get(userId))
                         ELSE cleared.world,
                         handler,
                         [Json(200, TRUE, "", Some(Get(userId).n), None)
                             EXCEPT !.sessionCleared = Some(logoutSuccess)])

\* ---- GET /api/user/:userId/wallet

\* crossmintWalletService.getUser(userId): the wallet-auth record of the user
getUser(world, userId) ==
    IF userId \in Users THEN world.walletAuth[userId] ELSE None

\* crossmintWalletService.hasWallet(userId)
hasWallet(world, userId) == IsSome(getUser(world, userId))

\* lines 489-520: the whole handler, it awaits nothing
getUserWallet(world, handler) ==
    LET param == Get(handler.body.userId).s
        userId == parseInt(IF Len(param) = 0 THEN <<"0">> ELSE param)
    IN  IF userId = None \/ Get(userId) = 0
        THEN badRequest(world, handler, "Invalid userId format.")
        ELSE LET userWallet == getUser(world, Get(userId))
             IN  IF ~hasWallet(world, Get(userId)) \/ userWallet = None
                    \/ Len(Get(userWallet).walletAddress) = 0
                 THEN respond(world, handler,
                              [Json(404, FALSE, "Wallet not found", None, None)
                                  EXCEPT !.hasWallet = Some(FALSE)])
                 ELSE respond(world, handler,
                              [Json(200, TRUE, "", None,
                                    Some(Get(userWallet).walletAddress))
                                  EXCEPT !.hasWallet = Some(TRUE)])

\* ---- POST /api/webhook/delegation-completed

\* lines 411-463: the handler up to its await of sendMessage
delegationCompleted(world, handler) ==
    LET body == handler.body
    IN  IF Falsy(body.userId) \/ FalsyText(body.botSigner) \/ FalsyText(body.status)
        THEN badRequest(world, handler,
                        "Missing required fields: userId, botSigner, status")
        ELSE IF Number(Get(body.userId)) = None
        THEN badRequest(world, handler, "Invalid userId format. Must be a number.")
        ELSE LET numericUserId == Get(Number(Get(body.userId)))
             IN  sendMessage(world,
                             [handler EXCEPT !.numericUserId = numericUserId],
                             Message(Num(numericUserId),
                                     IF body.status = Some("success")
                                     THEN "delegation-enabled"
                                     ELSE "delegation-failed",
                                     None, None, None),
                             "send")

\* ---- actions

Commit(h, out) ==
    /\ walletAuth' = out.world.walletAuth
    /\ sessions' = out.world.sessions
    /\ userMemory' = out.world.userMemory
    /\ sent' = out.world.sent
    /\ handlers' = IF h > Len(handlers)
                   THEN Append(handlers, out.handler)
                   ELSE [handlers EXCEPT ![h] = out.handler]
    /\ UNCHANGED <<now, vars, apiVars>>

\* requests are handled one after the other
Accepting ==
    /\ \A h \in 1..Len(handlers) : handlers[h].pc = "done"
    /\ Len(handlers) < MaxEvents

Arrived(route, body) ==
    NewHandler(Len(handlers) + 1, route, body, World)

WalletCreated(body) ==
    /\ Accepting
    /\ Commit(Len(handlers) + 1,
              walletCreated(World, Arrived("wallet-created", body), now))

PaymentCompleted(body) ==
    /\ Accepting
    /\ Commit(Len(handlers) + 1,
              paymentCompleted(World, Arrived("payment-completed", body)))

TransactionApproved(body) ==
    /\ Accepting
    /\ Commit(Len(handlers) + 1,
              transactionApproved(World, Arrived("transaction-approved", body)))

Logout(body, reported) ==
    /\ Accepting
    /\ Commit(Len(handlers) + 1, logout(World, Arrived("logout", body), reported))

DelegationCompleted(body) ==
    /\ Accepting
    /\ Commit(Len(handlers) + 1,
              delegationCompleted(World, Arrived("delegation-completed", body)))

GetUserWallet(param) ==
    /\ Accepting
    /\ Commit(Len(handlers) + 1,
              getUserWallet(World, Arrived("user-wallet",
                                           ApprovalBody(Some(Str(param)), None, None, None))))

\* getWalletBalance settles
BalanceSettled(h, answer) ==
    /\ handlers[h].pc = "balance"
    /\ LET handler == [handlers[h] EXCEPT !.balance = Some(answer)]
       IN  Commit(h, IF handler.route = "payment-completed"
                     THEN paymentBalanceSettled(World, handler, answer, now)
                     ELSE approvalBalanceSettled(World, handler, answer, now))

\* sendMessage resolves or rejects; the pending send of a handler is its
\* last entry in the transport log
SendSettled(h, delivered) ==
    /\ handlers[h].pc \in {"send", "sendTry", "sendCatch"}
    /\ LET pending == CHOOSE k \in 1..Len(sent) :
                          sent[k].handler = h /\ sent[k].outcome = "pending"
           world == [World EXCEPT !.sent[pending].outcome =
                        IF delivered THEN "delivered" ELSE "failed"]
       IN  Commit(h, CASE handlers[h].route = "wallet-created" ->
                            walletCreatedSent(world, handlers[h], delivered)
                       [] handlers[h].route = "payment-completed" ->
                            paymentSent(world, handlers[h], delivered, now)
                       [] handlers[h].route = "transaction-approved" ->
                            approvalSent(world, handlers[h], delivered)
                       [] handlers[h].route = "delegation-completed" ->
                            \* lines 470-483: the response, or the catch block
                            IF delivered
                            THEN respond(world, handlers[h],
                                         Json(200, TRUE, "",
                                              Some(handlers[h].numericUserId), None))
                            ELSE serverError(world, handlers[h]))

\* Date.now() moves on
Tick ==
    /\ now < MaxClock
    /\ now' = now + 1
    /\ UNCHANGED <<walletAuth, sessions, userMemory, sent, handlers, vars, apiVars>>

NextWebhook ==
    \/ \E body \in WalletCreatedBodies : WalletCreated(body)
    \/ \E body \in PaymentBodies : PaymentCompleted(body)
    \/ \E body \in ApprovalBodies : TransactionApproved(body)
    \/ \E body \in LogoutBodies, reported \in BOOLEAN : Logout(body, reported)
    \/ \E body \in DelegationBodies : DelegationCompleted(body)
    \/ \E param \in WalletPaths : GetUserWallet(param)
    \/ \E h \in 1..Len(handlers), answer \in BalanceAnswers : BalanceSettled(h, answer)
    \/ \E h \in 1..Len(handlers), delivered \in BOOLEAN : SendSettled(h, delivered)
    \/ Tick

SpecWebhook == Init /\ [][NextWebhook]_allVars

\* ---- handlers that overlap

\* a request arrives while other handlers are at their awaits: the event
\* loop runs the new handler up to its first await
Overlapping(out) ==
    /\ Len(handlers) < MaxEvents
    /\ Commit(Len(handlers) + 1, out)

\* the requests that pass validation, so that their handlers reach an await
\* or write to the stores; the clock stands still, no handler reads a
\* timestamp back
NextInterleaved ==
    \/ \E body \in {b \in WalletCreatedBodies : walletCreatedRejection(b) = None} :
          Overlapping(walletCreated(World, Arrived("wallet-created", body), now))
    \/ \E body \in {b \in PaymentBodies : b.amount # None /\ b.userId # None} :
          Overlapping(paymentCompleted(World, Arrived("payment-completed", body)))
    \/ \E body \in {b \in LogoutBodies : b.userId # None}, reported \in BOOLEAN :
          Overlapping(logout(World, Arrived("logout", body), reported))
    \/ \E h \in 1..Len(handlers), answer \in BalanceAnswers : BalanceSettled(h, answer)
    \/ \E h \in 1..Len(handlers), delivered \in BOOLEAN : SendSettled(h, delivered)

SpecInterleaved == Init /\ [][NextInterleaved]_allVars


\* ------------------------------------------------------------ properties

Done == pc \in {"returned", "thrown"}

IsHttpSuccess(r) == IsSome(r.status) /\ Get(r.status) \in 200..299

IsValidSuccess(r) == IsHttpSuccess(r) /\ SchemaValid(Get(r.data))

IsInvalidBody(r) == IsHttpSuccess(r) /\ ~SchemaValid(Get(r.data))

IsNotFoundClass(r) ==
    /\ r.status = Some(400)
    /\ IsSome(r.message)
    /\ Includes(Get(r.message), StrProductNotFound)

\* the error a failed attempt raises inside the loop
ErrorOfAnswer(r) ==
    IF IsHttpSuccess(r) THEN ZodError ELSE AxiosError(r.status, r.message)

LocatorOf(request) == request.lineItems.productLocator

\* C1: once candidate k is answered with an HTTP success whose body is schema
\* valid, the submission is over: exactly k requests were issued, no answer
\* follows, and the parsed order of that answer is the one classified.
C1_StopsAtFirstSuccess ==
    \A k \in 1..Len(responses) :
        IsValidSuccess(responses[k]) =>
            /\ Len(requests) = k
            /\ Len(responses) = k
            /\ Done
            /\ validatedResponse = Some(ParsedOrder(Get(responses[k].data)))
            /\ IsSome(retval) => Get(retval).order = ParsedOrder(Get(responses[k].data))

C1_Witness ==
    /\ pc = "returned"
    /\ Len(responses) = 3
    /\ IsNotFoundClass(responses[1])
    /\ IsNotFoundClass(responses[2])
    /\ IsValidSuccess(responses[3])
    /\ Len(requests) = 3

\* C2: an attempt that fails with an error outside the product-not-found
\* class ends the submission: no further request is issued and the error
\* surfaced is the one derived from that attempt.
C2_AbortsOnOtherError ==
    \A k \in 1..Len(responses) :
        (~IsValidSuccess(responses[k]) /\ ~IsNotFoundClass(responses[k])) =>
            /\ Len(requests) = k
            /\ pc = "thrown"
            /\ error = Some(orderCreationError(ErrorOfAnswer(responses[k])))

\* C3: when some create-order answer was an HTTP success with a schema-invalid
\* body, the finished operation threw the invalid-response-format error.
C3_InvalidBodyIsInvalidResponseShape ==
    (Done /\ \E k \in 1..Len(responses) : IsInvalidBody(responses[k])) =>
        /\ pc = "thrown"
        /\ retval = None
        /\ Get(error).text = "Invalid response format from Crossmint API"

\* C4: at most one create-order request of a submission is answered with an
\* HTTP success, and a request is issued only after the previous one returned.
C4_AtMostOneOrderCreated ==
    /\ Cardinality({k \in 1..Len(responses) : IsHttpSuccess(responses[k])}) <= 1
    /\ Len(requests) <= Len(responses) + 1

\* C5: the k-th request carries the k-th candidate; right after a
\* product-not-found-class answer to attempt k < N the error is recorded in
\* lastError and the request for candidate k+1 is the one pending.
C5_NextCandidateAfterNotFound ==
    /\ \A k \in 1..Len(requests) :
          LocatorOf(requests[k]) = productLocatorVariations[k]
    /\ LET k == Len(responses)
       IN  (k >= 1 /\ k < Len(productLocatorVariations) /\ IsNotFoundClass(responses[k])) =>
              /\ pc = "awaiting"
              /\ Len(requests) = k + 1
              /\ LocatorOf(requests[k + 1]) = productLocatorVariations[k + 1]
              /\ lastError = Some(ErrorOfAnswer(responses[k]))

C5_Witness ==
    /\ Len(responses) = 2
    /\ IsNotFoundClass(responses[1])
    /\ IsNotFoundClass(responses[2])
    /\ Len(requests) = 3
    /\ LocatorOf(requests[3]) # LocatorOf(requests[2])

\* C6: when every candidate was attempted and none succeeded, the submission
\* throws, and the error createOrderWithRetry throws is the error of the last
\* attempt, which is the one createWalletAmazonOrder reports.
C6_ExhaustedCarriesLastError ==
    LET n == Len(responses)
    IN  (n >= 1 /\ n = Len(productLocatorVariations) /\ ~IsValidSuccess(responses[n])) =>
            /\ pc = "thrown"
            /\ retval = None
            /\ retryError = Some(ErrorOfAnswer(responses[n]))
            /\ error = Some(orderCreationError(ErrorOfAnswer(responses[n])))

C6_Witness ==
    /\ pc = "thrown"
    /\ Len(responses) = 5
    /\ Len(productLocatorVariations) = 5
    /\ responses[4].message = Some(MsgNotFoundLocator)
    /\ responses[5].message = Some(MsgNotFound)
    /\ IsNotFoundClass(responses[5])
    /\ Get(error).detail = Some(MsgNotFound)

RejectedAddress(a) ==
    \/ a.country # "US"
    \/ ~IsSome(a.state)
    \/ Get(a.state) = ""

\* C7: a call whose shipping address is not US, or is US without a state,
\* fails without a single request having been sent to the provider.
C7_AddressRejectedBeforeNetwork ==
    (IsSome(args) /\ RejectedAddress(Get(args).shippingAddress)) =>
        /\ Len(requests) = 0
        /\ pc = "thrown"
        /\ IsSome(error)
        /\ retval = None

C7_Witness ==
    /\ IsSome(args)
    /\ IsSome(asinMatch(Get(args).product.amazonUrl))
    /\ Get(args).shippingAddress.country = "US"
    /\ Get(args).shippingAddress.state = Some("")
    /\ pc = "thrown"
    /\ Get(error).cause = "State is required for US shipping addresses"
    /\ requests = <<>>

HasTransaction(order) ==
    /\ IsSome(order.payment.preparation)
    /\ IsSome(Get(order.payment.preparation).serializedTransaction)

TransactionOf(order) == Get(Get(order.payment.preparation).serializedTransaction)

ThrewCause(text) ==
    /\ pc = "thrown"
    /\ retval = None
    /\ Get(error).cause = text

NoErrorCondition(order) ==
    /\ order.payment.status # InsufficientFundsStatus
    /\ order.quote.status # "requires-physical-address"

Succeeded(tx) ==
    /\ pc = "returned"
    /\ error = None
    /\ Get(retval).requiresTransaction
    /\ Get(retval).serializedTransaction = Some(tx)

\* C9 as stated: a parsed order with a present serialized transaction and no
\* error condition is classified Succeeded with exactly that string.
C9_Original ==
    (IsSome(validatedResponse)
       /\ NoErrorCondition(Get(validatedResponse))
       /\ HasTransaction(Get(validatedResponse))) =>
        Succeeded(TransactionOf(Get(validatedResponse)))

\* C9 (amended): a parsed order with a present, non-empty serialized
\* transaction and no error condition is classified Succeeded, and the
\* returned serializedTransaction is exactly that string.
C9_SucceededCarriesTransaction ==
    (IsSome(validatedResponse)
       /\ NoErrorCondition(Get(validatedResponse))
       /\ HasTransaction(Get(validatedResponse))
       /\ TransactionOf(Get(validatedResponse)) # "") =>
        Succeeded(TransactionOf(Get(validatedResponse)))

C9_Witness ==
    /\ pc = "returned"
    /\ IsSome(validatedResponse)
    /\ Get(validatedResponse).payment.status = "awaiting-payment"
    /\ TransactionOf(Get(validatedResponse)) = "tx-B"
    /\ Get(retval).serializedTransaction = Some("tx-B")

\* C31: createWalletAmazonOrder returns a value only in the Succeeded
\* outcome: a returned value has requiresTransaction true, a non-empty
\* serializedTransaction that is the one of the parsed order, a payment.status
\* that is not the insufficient-funds status and a quote.status that is not
\* 'requires-physical-address'; a call that ended any other way has thrown an
\* error and returned nothing.
C31_ReturnsOnlySucceeded ==
    /\ IsSome(retval) <=> pc = "returned"
    /\ pc = "returned" =>
          LET order == Get(retval).order
          IN  /\ error = None
              /\ validatedResponse = Some(order)
              /\ Get(retval).requiresTransaction
              /\ IsSome(Get(retval).serializedTransaction)
              /\ Get(Get(retval).serializedTransaction) # ""
              /\ HasTransaction(order)
              /\ Get(retval).serializedTransaction = Some(TransactionOf(order))
              /\ NoErrorCondition(order)
    /\ (Done /\ pc # "returned") => pc = "thrown" /\ IsSome(error) /\ retval = None
    /\ (IsSome(validatedResponse)
           /\ (~NoErrorCondition(Get(validatedResponse))
                 \/ ~HasTransaction(Get(validatedResponse))
                 \/ TransactionOf(Get(validatedResponse)) = "")) =>
          pc = "thrown" /\ retval = None

C31_Witness ==
    /\ pc = "returned"
    /\ Len(requests) = 3
    /\ Get(retval).order.payment.status = "insufficient-funds"
    /\ Get(retval).serializedTransaction = Some("tx-A")

\* C10: the classification of a parsed order is decided in a fixed priority:
\* insufficient funds, then requires-physical-address (also with a transaction
\* present), then an absent or empty transaction, and only then success; each
\* parsed order ends in exactly one of the four outcomes.
C10_FixedPriority ==
    IsSome(validatedResponse) =>
        LET order == Get(validatedResponse)
        IN  /\ Done
            /\ IF order.payment.status = InsufficientFundsStatus
               THEN ThrewCause("Insufficient USDC funds in wallet")
               ELSE IF order.quote.status = "requires-physical-address"
               THEN ThrewCause("Physical address is required for this product")
               ELSE IF ~HasTransaction(order) \/ TransactionOf(order) = ""
               THEN ThrewCause("No serialized transaction found for order")
               ELSE Succeeded(TransactionOf(order))
            /\ (pc = "returned") = IsSome(retval)
            /\ (pc = "thrown") = IsSome(error)
            /\ ~(IsSome(retval) /\ IsSome(error))

C10_Witness ==
    /\ IsSome(validatedResponse)
    /\ Get(validatedResponse).payment.status = "awaiting-payment"
    /\ Get(validatedResponse).quote.status = "requires-physical-address"
    /\ HasTransaction(Get(validatedResponse))
    /\ TransactionOf(Get(validatedResponse)) = "tx-A"
    /\ pc = "thrown"
    /\ Get(error).cause = "Physical address is required for this product"

\* ---------------------------------------------- properties of the wallet API

ApiAnsweredBy(fn) == apiFn = fn /\ IsSome(apiAnswer)

ApiFailureHasReason ==
    Get(apiResult).success = Some(FALSE) =>
        /\ IsSome(Get(apiResult).error)
        /\ Get(Get(apiResult).error).text # ""

AnswerAccepted(answer, statuses) ==
    answer.hasResponse /\ answer.status \in statuses

\* C11: whatever the provider does (any status, an error response, a timeout
\* or connection failure, a null body), signOrderTransaction returns a result
\* and never throws, and a result with success=false carries an error reason.
C11_SignNeverThrows ==
    /\ apiFn = "sign" => apiPc # "thrown" /\ apiThrown = None
    /\ ApiAnsweredBy("sign") =>
          /\ apiPc = "returned"
          /\ IsSome(apiResult)
          /\ IsSome(Get(apiResult).success)
          /\ ApiFailureHasReason

C11_Witness ==
    /\ ApiAnsweredBy("sign")
    /\ Get(apiAnswer).status = 200
    /\ Get(apiAnswer).data = None
    /\ apiPc = "returned"
    /\ Get(apiResult).success = Some(FALSE)
    /\ Get(Get(apiResult).error).text = "Network error"

\* C12: signOrderTransaction returns success=true exactly when the provider
\* answered HTTP 200 or 201, and then passes the status and the transaction
\* identifier of the body through; every other outcome is success=false.
C12_SuccessIffAccepted ==
    ApiAnsweredBy("sign") =>
        /\ (Get(apiResult).success = Some(TRUE))
              = AnswerAccepted(Get(apiAnswer), {200, 201})
        /\ Get(apiResult).success = Some(TRUE) =>
              /\ Get(apiResult).status = Get(Get(apiAnswer).data).status
              /\ Get(apiResult).transactionId =
                    OrElse(Get(Get(apiAnswer).data).id,
                           Get(Get(apiAnswer).data).transactionId)

\* C13: approveTransaction returns success=true if and only if the provider
\* answered HTTP 201; every other answer gives success=false with a message,
\* the call never throws, and the payload posted holds exactly one approval
\* made of the caller's signer, signature and metadata.
C13_ApproveSuccessOnly201 ==
    /\ apiFn = "approve" =>
          /\ apiPc # "thrown"
          /\ Len(Get(apiRequest).approvals) = 1
          /\ Get(apiRequest).approvals[1].signer = Get(apiArgs).signerLocator
          /\ Get(apiRequest).approvals[1].signature = Get(apiArgs).signature
          /\ Get(apiRequest).approvals[1].metadata = Get(apiArgs).metadata
    /\ ApiAnsweredBy("approve") =>
          /\ apiPc = "returned"
          /\ (Get(apiResult).success = Some(TRUE))
                = AnswerAccepted(Get(apiAnswer), {201})
          /\ Get(apiResult).success \in {Some(TRUE), Some(FALSE)}
          /\ ApiFailureHasReason

C13_Witness ==
    /\ ApiAnsweredBy("approve")
    /\ Get(apiAnswer).status = 200
    /\ apiPc = "returned"
    /\ Get(apiResult).success = Some(FALSE)
    /\ Get(Get(apiResult).error).text = "Approval failed with status"

AwaitingApproval(answer) ==
    /\ Resolves(answer)
    /\ IsSome(answer.data)
    /\ Get(answer.data).status = Some("awaiting-approval")

PendingOf(answer) ==
    IF IsSome(Get(answer.data).approvals)
       /\ IsSome(Get(Get(answer.data).approvals).pending)
    THEN Get(Get(Get(answer.data).approvals).pending)
    ELSE <<>>

\* C14: when the fetched transaction is not exactly in status
\* "awaiting-approval", or the fetch fails, getTransactionDetails returns
\* neither pendingMessage nor signerLocator, whatever the approvals hold.
C14_NoPendingUnlessAwaiting ==
    (ApiAnsweredBy("details") /\ ~AwaitingApproval(Get(apiAnswer))) =>
        /\ apiPc = "returned"
        /\ Get(apiResult).pendingMessage = None
        /\ Get(apiResult).signerLocator = None
        /\ IsSome(Get(apiResult).error)

C14_Witness ==
    /\ ApiAnsweredBy("details")
    /\ Resolves(Get(apiAnswer))
    /\ IsSome(Get(apiAnswer).data)
    /\ Get(Get(apiAnswer).data).status = Some("approved")
    /\ PendingOf(Get(apiAnswer)) = <<PendingA, PendingB>>
    /\ apiPc = "returned"
    /\ Get(apiResult).pendingMessage = None

\* C15: for a transaction in status "awaiting-approval" the result carries
\* the message and signer of the first pending approval; with an empty or
\* missing list it carries none and reports the current status.
C15_FirstPendingApproval ==
    (ApiAnsweredBy("details") /\ AwaitingApproval(Get(apiAnswer))) =>
        LET pending == PendingOf(Get(apiAnswer))
        IN  /\ apiPc = "returned"
            /\ IF Len(pending) > 0
               THEN /\ Get(apiResult).pendingMessage = pending[1].message
                    /\ Get(apiResult).signerLocator = pending[1].signer
                    /\ Get(apiResult).error = None
               ELSE /\ Get(apiResult).pendingMessage = None
                    /\ Get(apiResult).signerLocator = None
                    /\ Get(apiResult).error =
                          ErrorText("Transaction is not awaiting approval. Current status",
                                    "awaiting-approval")

C15_Witness ==
    /\ ApiAnsweredBy("details")
    /\ AwaitingApproval(Get(apiAnswer))
    /\ PendingOf(Get(apiAnswer)) = <<PendingB, PendingA>>
    /\ Get(apiResult).pendingMessage = Some("0xmsgB")
    /\ Get(apiResult).signerLocator = Some("evm-passkey:B")

\* ---------------------------------------- properties of the settlement notifier

Finished(h) == h \in 1..Len(handlers) /\ handlers[h].pc = "done"

SendsOf(h) == {k \in 1..Len(sent) : sent[k].handler = h}

FailedSendsOf(h) == {k \in SendsOf(h) : sent[k].outcome = "failed"}

\* a wallet-created body the claim calls invalid: a required field is
\* missing or empty, or the userId is a string that is not a number
InvalidWalletCreated(body) ==
    \/ body.userId = None
    \/ body.walletAddress = None
    \/ body.walletAddress = Some(<<>>)
    \/ body.crossmintUserId = None
    \/ /\ Get(body.userId).type = "string"
       /\ \E k \in 1..Len(Get(body.userId).s) : Get(body.userId).s[k] \notin Digits

\* C16: a wallet-created event with a missing walletAddress, userId or
\* provider user id, or with a non-numeric userId, is answered 400 with the
\* wallet-auth state and the session memory of every user as they were
\* before, and without any notification.
C16_InvalidWalletCreatedRejected ==
    \A h \in 1..Len(handlers) :
        (handlers[h].route = "wallet-created"
         /\ InvalidWalletCreated(handlers[h].body)) =>
            /\ Finished(h)
            /\ Get(handlers[h].res).status = 400
            /\ handlers[h].post = Some(handlers[h].pre)
            /\ SendsOf(h) = {}

\* the wallet state of a user: the wallet-auth record and the wallet info
\* of the user's session
WalletStateOf(stores, u) ==
    [auth |-> stores.walletAuth[u],
     walletInfo |-> IF stores.userMemory[u] = 0 THEN None
                    ELSE stores.sessions[stores.userMemory[u]].walletInfo]

\* C17: a second delivery of the same wallet-created event leaves the
\* wallet-auth record and the session's wallet info of the user as the
\* first delivery left them.
C17_DuplicateWalletCreatedIdempotent ==
    \A h \in 2..Len(handlers) :
        (/\ Finished(h)
         /\ handlers[h].route = "wallet-created"
         /\ handlers[h - 1].route = "wallet-created"
         /\ handlers[h].body = handlers[h - 1].body
         /\ ~InvalidWalletCreated(handlers[h].body)) =>
            WalletStateOf(Get(handlers[h].post), handlers[h].numericUserId)
                = WalletStateOf(Get(handlers[h - 1].post), handlers[h].numericUserId)

BalanceUnresolved(h) ==
    /\ IsSome(handlers[h].balance)
    /\ ~Get(handlers[h].balance).resolves \/ Get(handlers[h].balance).data = None

\* C18: a payment-completed event whose balance lookup returns no data or
\* throws is answered 200 {success:true}, never 500, and a fallback
\* notification has been sent for it.
C18_UnresolvedBalanceAcknowledged ==
    \A h \in 1..Len(handlers) :
        (Finished(h) /\ handlers[h].route = "payment-completed"
         /\ BalanceUnresolved(h)) =>
            /\ Get(handlers[h].res).status = 200
            /\ Get(handlers[h].res).success
            /\ \E k \in SendsOf(h) : sent[k].message.template = "payment-fallback"

\* C19: the notification transport is invoked at most once for one webhook
\* event: a failed send is never followed by another send for that event.
C19_AtMostOneSendPerEvent ==
    \A h \in 1..Len(handlers) : Cardinality(SendsOf(h)) <= 1

\* C20: when the send fails after wallet-created has updated the wallet-auth
\* record and the wallet info, or after payment-completed has written the
\* top-up fields, those updates are still in place when the handler has
\* finished.
C20_FailedSendKeepsUpdate ==
    \A h \in 1..Len(handlers) :
        (Finished(h) /\ FailedSendsOf(h) # {}) =>
            LET body == handlers[h].body
                after == Get(handlers[h].post)
            IN  /\ handlers[h].route = "wallet-created" =>
                      LET state == WalletStateOf(after, handlers[h].numericUserId)
                      IN  /\ IsSome(state.auth)
                          /\ Get(state.auth).walletAddress = Get(body.walletAddress)
                          /\ Get(state.auth).crossmintUserId = Get(body.crossmintUserId)
                          /\ handlers[h].memory # 0 =>
                                /\ IsSome(state.walletInfo)
                                /\ Get(state.walletInfo).address = Get(body.walletAddress)
                /\ handlers[h].route = "payment-completed" =>
                      LET state == WalletStateOf(after, Get(body.userId).n)
                      IN  /\ IsSome(state.walletInfo)
                          /\ Get(state.walletInfo).lastTopUpAmount = body.amount
                          /\ IsSome(Get(state.walletInfo).lastTopUpAt)
                /\ h = Len(handlers) => Stores(World) = after

C20_Witness ==
    \E h \in 1..Len(handlers), g \in 1..Len(handlers) :
        /\ Finished(h) /\ Finished(g)
        /\ handlers[h].route = "wallet-created"
        /\ handlers[h].numericUserId = UserWithSession
        /\ Get(handlers[h].res).status = 500
        /\ handlers[g].route = "payment-completed"
        /\ Get(handlers[g].res).status = 500
        /\ FailedSendsOf(g) # {}

\* C21: when logout has answered a request with a numeric userId, the
\* wallet-auth record and the session memory of that user are both cleared,
\* whatever the stores held before.
C21_LogoutClearsBoth ==
    \A h \in 1..Len(handlers) :
        (/\ Finished(h)
         /\ handlers[h].route = "logout"
         /\ Get(handlers[h].res).status = 200) =>
            LET u == Get(handlers[h].body.userId).n
                after == Get(handlers[h].post)
            IN  /\ after.walletAuth[u] = None
                /\ after.userMemory[u] = 0

\* C22: a payment-completed event with its required fields and a userId
\* that has a session had its balance fetched and its user notified; the
\* session is the only precondition.
C22_SessionSufficesForNotification ==
    \A h \in 1..Len(handlers) :
        (/\ Finished(h)
         /\ handlers[h].route = "payment-completed"
         /\ handlers[h].body.sessionId # None
         /\ handlers[h].body.amount # None
         /\ handlers[h].body.transactionId # None
         /\ handlers[h].body.userId # None
         /\ handlers[h].pre.userMemory[Get(handlers[h].body.userId).n] # 0) =>
            /\ IsSome(handlers[h].balance)
            /\ SendsOf(h) # {}

\* C23: a transaction-approved event with all its required fields is
\* answered 200 {success:true}; with status 'approved' a confirmation that
\* carries the order id and the transaction id has been sent, with another
\* status a failure notice has been sent and the session state is as before.
C23_ApprovalAcknowledged ==
    \A h \in 1..Len(handlers) :
        (/\ Finished(h)
         /\ handlers[h].route = "transaction-approved"
         /\ handlers[h].body.userId # None
         /\ handlers[h].body.transactionId # None
         /\ handlers[h].body.orderId # None
         /\ handlers[h].body.status # None) =>
            /\ Get(handlers[h].res).status = 200
            /\ Get(handlers[h].res).success
            /\ IF handlers[h].body.status = Some("approved")
               THEN \E k \in SendsOf(h) :
                       /\ sent[k].message.template \in {"approved", "approved-fallback"}
                       /\ sent[k].message.orderId = handlers[h].body.orderId
                       /\ sent[k].message.transactionId = handlers[h].body.transactionId
               ELSE /\ \E k \in SendsOf(h) :
                          sent[k].message.template = "approval-failed"
                    /\ Get(handlers[h].post).sessions = handlers[h].pre.sessions
                    /\ Get(handlers[h].post).userMemory = handlers[h].pre.userMemory

\* a request the claim calls invalid: a required field of its route is
\* missing, the userId of a logout is not a number, or the userId of a
\* transaction-approved or delegation-completed event is a string that is
\* not a number
InvalidRequest(route, body) ==
    LET NotNumeric(userId) ==
            /\ IsSome(userId)
            /\ Get(userId).type = "string"
            /\ \E k \in 1..Len(Get(userId).s) : Get(userId).s[k] \notin Digits
    IN  CASE route = "logout" ->
                 body.userId = None \/ Get(body.userId).type # "number"
          [] route = "payment-completed" ->
                 body.sessionId = None \/ body.amount = None
                     \/ body.transactionId = None
          [] route = "transaction-approved" ->
                 body.userId = None \/ body.transactionId = None
                     \/ body.orderId = None \/ body.status = None
                     \/ NotNumeric(body.userId)
          [] route = "delegation-completed" ->
                 body.userId = None \/ body.botSigner = None
                     \/ body.status = None \/ NotNumeric(body.userId)
          [] OTHER -> FALSE

\* C24: a logout, payment-completed, transaction-approved or
\* delegation-completed request with a missing or invalid required field is
\* answered 400 with the wallet-auth state and the session memory of every
\* user as they were before, and without any notification.
C24_InvalidRequestRejected ==
    \A h \in 1..Len(handlers) :
        InvalidRequest(handlers[h].route, handlers[h].body) =>
            /\ Finished(h)
            /\ Get(handlers[h].res).status = 400
            /\ handlers[h].post = Some(handlers[h].pre)
            /\ SendsOf(h) = {}

\* C25: a second delivery of the same payment-completed event, with the
\* same answer of the balance service, leaves the wallet-auth record and
\* the session's wallet info of the user as the first delivery left them.
C25_DuplicatePaymentIdempotent ==
    \A h \in 2..Len(handlers) :
        (/\ Finished(h)
         /\ handlers[h].route = "payment-completed"
         /\ handlers[h - 1].route = "payment-completed"
         /\ handlers[h].body = handlers[h - 1].body
         /\ handlers[h].balance = handlers[h - 1].balance
         /\ handlers[h].body.userId # None) =>
            WalletStateOf(Get(handlers[h].post), Get(handlers[h].body.userId).n)
                = WalletStateOf(Get(handlers[h - 1].post), Get(handlers[h].body.userId).n)

\* the events that decide what GET /api/user/u/wallet shows: the
\* wallet-created events for user u that passed validation and the logouts
\* of u that were answered 200
WalletEventsOf(u, before) ==
    {g \in 1..(before - 1) :
        /\ Finished(g)
        /\ \/ /\ handlers[g].route = "wallet-created"
              /\ Get(handlers[g].res).status # 400
              /\ handlers[g].numericUserId = u
           \/ /\ handlers[g].route = "logout"
              /\ Get(handlers[g].res).status = 200
              /\ handlers[g].body.userId = Some(Num(u))}

\* C32: GET /api/user/u/wallet changes no state and sends nothing; when the
\* last processed event of user u is a wallet-created with address a it
\* answers 200 with address a, and when it is a logout of u it answers 404
\* {hasWallet:false}.
C32_WalletVisibilityFollowsEvents ==
    \A h \in 1..Len(handlers) :
        (Finished(h) /\ handlers[h].route = "user-wallet") =>
            /\ handlers[h].post = Some(handlers[h].pre)
            /\ SendsOf(h) = {}
            /\ \A u \in Users :
                  LET param == Get(handlers[h].body.userId).s
                      events == WalletEventsOf(u, h)
                      last == CHOOSE g \in events : \A k \in events : k <= g
                  IN  (/\ \A k \in 1..Len(param) : param[k] \in Digits
                       /\ DecimalValue(param) = u
                       /\ events # {}) =>
                          IF handlers[last].route = "wallet-created"
                          THEN /\ Get(handlers[h].res).status = 200
                               /\ Get(handlers[h].res).walletAddress
                                     = handlers[last].body.walletAddress
                          ELSE /\ Get(handlers[h].res).status = 404
                               /\ Get(handlers[h].res).hasWallet = Some(FALSE)

\* the wallet-created handlers of user u that passed validation
WalletCreatedFor(u) ==
    {h \in 1..Len(handlers) :
        /\ handlers[h].route = "wallet-created"
        /\ handlers[h].numericUserId = u
        /\ ~(Finished(h) /\ Get(handlers[h].res).status = 400)}

LoggedOut(u) ==
    \E g \in 1..Len(handlers) :
        /\ handlers[g].route = "logout"
        /\ Finished(g)
        /\ Get(handlers[g].res).status = 200
        /\ handlers[g].body.userId = Some(Num(u))

\* C33: when the wallet-created handlers of a user with a session have all
\* finished, in whatever order their awaits were resumed, the address of the
\* wallet-auth record and the address of the session's wallet info are both
\* the address of the handler that ran its update last.
C33_InterleavedWalletCreatedAgree ==
    \A u \in Users :
        (/\ WalletCreatedFor(u) # {}
         /\ \A h \in WalletCreatedFor(u) : Finished(h)
         /\ userMemory[u] # 0
         /\ ~LoggedOut(u)) =>
            LET last == CHOOSE h \in WalletCreatedFor(u) :
                            \A k \in WalletCreatedFor(u) : k <= h
                state == WalletStateOf(Stores(World), u)
            IN  /\ IsSome(state.auth)
                /\ IsSome(state.walletInfo)
                /\ Get(state.auth).walletAddress = Get(state.walletInfo).address
                /\ Get(state.auth).walletAddress = Get(handlers[last].body.walletAddress)

\* two handlers of one user with different addresses, the first resumed
\* after the second had finished
C33_Witness ==
    /\ Len(handlers) >= 2
    /\ handlers[1].route = "wallet-created" /\ handlers[2].route = "wallet-created"
    /\ handlers[1].numericUserId = UserWithSession
    /\ handlers[2].numericUserId = UserWithSession
    /\ handlers[1].body.walletAddress = Some(AddressA)
    /\ handlers[2].body.walletAddress = Some(AddressB)
    /\ Finished(1) /\ Finished(2)
    /\ Get(Get(handlers[2].post).walletAuth[UserWithSession]).walletAddress = AddressB
    /\ handlers[2].pre.walletAuth[UserWithSession] # None
    /\ Cardinality({k \in 1..Len(sent) : sent[k].outcome = "pending"}) = 0
    /\ sent[1].handler = 1 /\ sent[2].handler = 2
    /\ Get(handlers[1].post).walletAuth = Get(handlers[2].post).walletAuth
    /\ Get(Get(handlers[1].post).sessions[1].walletInfo).address = AddressB

\* C34: once a logout of user u has answered with sessionCleared true, the
\* session store holds no wallet info for u, also after a payment-completed
\* handler that read the session before the logout has been resumed and has
\* written its top-up fields.
C34_LogoutNotUndoneByPayment ==
    \A g \in 1..Len(handlers) :
        (/\ handlers[g].route = "logout"
         /\ Finished(g)
         /\ Get(handlers[g].res).sessionCleared = Some(TRUE)) =>
            LET u == Get(handlers[g].body.userId).n
            IN  /\ userMemory[u] = 0
                /\ WalletStateOf(Stores(World), u).walletInfo = None

\* a payment handler that read the session of the user, a logout that
\* cleared it while the handler awaited the balance, and the handler
\* resumed and finished afterwards
C34_Witness ==
    \E h \in 1..Len(handlers), g \in 1..Len(handlers) :
        /\ h < g
        /\ handlers[h].route = "payment-completed"
        /\ handlers[h].body.userId = Some(Num(UserWithWallet))
        /\ handlers[g].route = "logout"
        /\ handlers[g].body.userId = Some(Num(UserWithWallet))
        /\ Get(handlers[g].res).sessionCleared = Some(TRUE)
        /\ handlers[g].pre.userMemory[UserWithWallet] = handlers[h].memory
        /\ handlers[h].memory # 0
        /\ Finished(h)
        /\ Get(handlers[h].post).userMemory[UserWithWallet] = 0
        /\ IsSome(handlers[h].balance)
        /\ Get(sessions[handlers[h].memory].walletInfo).lastTopUpAmount
              = handlers[h].body.amount

\* C26: the walletAddress of the 200 response of wallet-created is masked:
\* for an address longer than the prefix and the suffix shown it is the first
\* 8 characters, an ellipsis and the last 6 characters, and does not contain
\* the full address.
C26_ResponseAddressMasked ==
    \A h \in 1..Len(handlers) :
        (/\ Finished(h)
         /\ handlers[h].route = "wallet-created"
         /\ Get(handlers[h].res).status = 200
         /\ Len(Get(handlers[h].body.walletAddress)) > 8 + 6) =>
            LET address == Get(handlers[h].body.walletAddress)
                shown == Get(Get(handlers[h].res).walletAddress)
            IN  /\ ~Includes(shown, address)
                /\ shown = SubSeq(address, 1, 8) \o <<".", ".", ".">>
                              \o SubSeq(address, Len(address) - 5, Len(address))

\* ------------------------------------------ properties of the candidate list

\* C27: the candidates of a submission are, in this order, amazon:<id>,
\* amazon:<canonical url>, amazon:<original url>, the bare id and the clean
\* canonical url; the first one is the locator extractProductLocator returns
\* for the same URL, and the first request carries it.  The list is built
\* once, before the first answer; that is where it is compared with the
\* extracted locator.
C27_VariationsInPriorityOrder ==
    IsSome(orderRequest) =>
        LET url == Get(args).product.amazonUrl
            id == productLocatorVariations[4]
        IN  /\ Len(responses) = 0 =>
                  productLocatorVariations[1] = Get(extractProductLocator(url))
            /\ productLocatorVariations =
                  << StrAmazon \o id, StrAmazon \o StrCleanUrl \o id,
                     StrAmazon \o url, id, StrCleanUrl \o id >>
            /\ LocatorOf(requests[1]) = productLocatorVariations[1]

C27_Witness ==
    /\ IsSome(orderRequest)
    /\ Get(args).product.amazonUrl = UrlGpLower
    /\ Len(requests) = 1
    /\ LocatorOf(requests[1]) = StrAmazon \o <<"b","0","1","d","f","k","c","2","s","o">>

\* C28: the candidates of one submission are pairwise distinct, so no
\* product reference is sent to the provider twice.
C28_CandidatesDistinct ==
    /\ \A j, k \in 1..Len(productLocatorVariations) :
          j # k => productLocatorVariations[j] # productLocatorVariations[k]
    /\ \A j, k \in 1..Len(requests) :
          j # k => LocatorOf(requests[j]) # LocatorOf(requests[k])

\* C29: every request of a submission carries the recipient and the payment
\* of the built order request (chain base-sepolia, currency usdc, the
\* caller's wallet as payer), and the built order request stays as it was
\* built.
C29_LoopChangesOnlyLocator ==
    IsSome(orderRequest) =>
        LET a == Get(args)
            built == Get(orderRequest)
        IN  /\ built.recipient = [email |-> a.userEmail,
                                  physicalAddress |-> a.shippingAddress]
            /\ built.payment = [method |-> "base-sepolia", currency |-> "usdc",
                                payerAddress |-> a.walletAddress,
                                receiptEmail |-> a.userEmail]
            /\ LocatorOf(built) = productLocatorVariations[1]
            /\ \A k \in 1..Len(requests) :
                  /\ requests[k].recipient = built.recipient
                  /\ requests[k].payment = built.payment

C29_Witness ==
    /\ IsSome(orderRequest)
    /\ Len(requests) = 4
    /\ LocatorOf(requests[4]) # LocatorOf(Get(orderRequest))
    /\ requests[4].payment.payerAddress = Get(args).walletAddress

\* C30: provided every provider call returns or times out, a submission
\* ends with a classified order or a thrown error, after at most one request
\* per candidate, each candidate tried once and in order.
C30_SubmissionTerminates ==
    /\ [](/\ Len(requests) <= Len(productLocatorVariations)
          /\ \A k \in 1..Len(requests) :
                LocatorOf(requests[k]) = productLocatorVariations[k])
    /\ (pc = "awaiting") ~> Done

C30_Witness ==
    /\ pc = "returned"
    /\ Len(requests) = Len(productLocatorVariations)
    /\ Len(responses) = 5

====
